---- MODULE Spec2Model ----
(***************************************************************************)
(* The conversation state machine of the cake order bot                    *)
(* (handlers/conversation_handler.py): the per-user step tracker, the      *)
(* validation rules, the flow table and the summary / save sequencing.     *)
(*                                                                         *)
(* A message is a sequence of one-character strings, so that strip(),      *)
(* lower(), int() and strptime() are computed on the characters.           *)
(* Time is counted in half days (midnight and noon of each day).           *)
(***************************************************************************)
EXTENDS Integers, Sequences, FiniteSets, TLC

VARIABLES
    user_states,    \* conversation_handler.user_states: user -> [step, data]
    now,            \* the value datetime.now() returns, in half days
    last,           \* the last get_response call: its input, reply and effects
    written,        \* history: per user and data key, the message that wrote it
    persist_calls,  \* history: save_order_data calls since the user's data was last emptied
    webhook,        \* the last process_whatsapp_message call, if it is the last operation
    inflight,       \* handlers that have read the step of their user and not yet returned
    overlaps,       \* history: how many handlers were started while another was running
    streak          \* history: the messages handled so far if none was rejected, else -1

vars == <<user_states, now, last, written, persist_calls, webhook, inflight, overlaps, streak>>

(***************************************************************************)
(* Text: str.strip(), str.lower(), int(), datetime.strptime()              *)
(***************************************************************************)
UPPER ==
    <<"A", "B", "C", "D", "E", "F", "G", "H", "I", "J", "K", "L", "M",
      "N", "O", "P", "Q", "R", "S", "T", "U", "V", "W", "X", "Y", "Z">>

LOWER ==
    <<"a", "b", "c", "d", "e", "f", "g", "h", "i", "j", "k", "l", "m",
      "n", "o", "p", "q", "r", "s", "t", "u", "v", "w", "x", "y", "z">>

DIGITS ==
    <<"0", "1", "2", "3", "4", "5", "6", "7", "8", "9">>

WHITESPACE == {" ", "\t", "\n", "\r"}

LowerChar(c) ==
    IF \E i \in DOMAIN UPPER : UPPER[i] = c
    THEN LOWER[CHOOSE i \in DOMAIN UPPER : UPPER[i] = c]
    ELSE c

\* str.lower()
lower(s) == [i \in DOMAIN s |-> LowerChar(s[i])]

RECURSIVE lstrip(_)
lstrip(s) ==
    IF s # <<>> /\ Head(s) \in WHITESPACE THEN lstrip(Tail(s)) ELSE s

RECURSIVE rstrip(_)
rstrip(s) ==
    IF s # <<>> /\ s[Len(s)] \in WHITESPACE
    THEN rstrip(SubSeq(s, 1, Len(s) - 1))
    ELSE s

\* str.strip()
strip(s) == rstrip(lstrip(s))

IsDigit(c) == \E i \in DOMAIN DIGITS : DIGITS[i] = c

DigitVal(c) == (CHOOSE i \in DOMAIN DIGITS : DIGITS[i] = c) - 1

AllDigits(s) == s # <<>> /\ \A i \in DOMAIN s : IsDigit(s[i])

RECURSIVE DigitsVal(_)
DigitsVal(s) ==
    IF s = <<>> THEN 0
    ELSE 10 * DigitsVal(SubSeq(s, 1, Len(s) - 1)) + DigitVal(s[Len(s)])

\* a digit string of an int literal: digits, with single underscores allowed
\* between two digits
Grouped(d) ==
    /\ d # <<>>
    /\ \A i \in DOMAIN d :
          \/ IsDigit(d[i])
          \/ /\ d[i] = "_"
             /\ 1 < i /\ i < Len(d)
             /\ IsDigit(d[i - 1]) /\ IsDigit(d[i + 1])

\* int(str): surrounding whitespace and one sign are allowed, then decimal
\* digits (underscores between digits are skipped); anything else is a
\* ValueError (ok = FALSE).  int(None) is a TypeError, which the callers
\* treat like the ValueError.
int(s) ==
    LET t == strip(s)
        signed == t # <<>> /\ Head(t) \in {"+", "-"}
        d == IF signed THEN Tail(t) ELSE t
        digits == SelectSeq(d, IsDigit)
    IN  IF Grouped(d)
        THEN [ok |-> TRUE,
              val |-> IF signed /\ Head(t) = "-" THEN 0 - DigitsVal(digits)
                      ELSE DigitsVal(digits)]
        ELSE [ok |-> FALSE, val |-> 0]

IsLeap(y) == (y % 4 = 0 /\ y % 100 # 0) \/ y % 400 = 0

DaysInMonth(y, m) ==
    IF m = 2 THEN (IF IsLeap(y) THEN 29 ELSE 28)
    ELSE IF m \in {4, 6, 9, 11} THEN 30 ELSE 31

RECURSIVE DaysBeforeMonth(_, _)
DaysBeforeMonth(y, m) ==
    IF m = 1 THEN 0 ELSE DaysBeforeMonth(y, m - 1) + DaysInMonth(y, m - 1)

\* date.toordinal(): the day number of y-m-d, 0001-01-01 being day 1
toordinal(y, m, d) ==
    365 * (y - 1) + ((y - 1) \div 4) - ((y - 1) \div 100) + ((y - 1) \div 400)
        + DaysBeforeMonth(y, m) + d

SlashAt(s) == {i \in DOMAIN s : s[i] = "/"}

\* datetime.strptime(s, '%d/%m/%Y'): a day of one or two digits (or of a
\* blank and one digit, which %d also takes), a month of one or two digits,
\* a year of four digits, a date of the calendar; otherwise ValueError.
strptime(s) ==
    LET sl == SlashAt(s)
        i1 == CHOOSE i \in sl : \A j \in sl : i <= j
        i2 == CHOOSE i \in sl : \A j \in sl : j <= i
        day == SubSeq(s, 1, i1 - 1)
        blank == Len(day) = 2 /\ day[1] = " "
        dd == IF blank THEN Tail(day) ELSE day
        mm == SubSeq(s, i1 + 1, i2 - 1)
        yy == SubSeq(s, i2 + 1, Len(s))
        shaped == /\ Cardinality(sl) = 2
                  /\ AllDigits(dd) /\ Len(dd) \in {1, 2}
                  /\ AllDigits(mm) /\ Len(mm) \in {1, 2}
                  /\ AllDigits(yy) /\ Len(yy) = 4
        d == DigitsVal(dd)
        m == DigitsVal(mm)
        y == DigitsVal(yy)
    IN  IF shaped /\ y >= 1 /\ m \in 1..12 /\ d >= 1 /\ d <= DaysInMonth(y, m)
        THEN [ok |-> TRUE, ordinal |-> toordinal(y, m, d)]
        ELSE [ok |-> FALSE, ordinal |-> 0]

\* timedelta(hours=24), in half days
HOURS_24 == 2

\* midnight of the day with the given ordinal, in half days
Midnight(ordinal) == HOURS_24 * ordinal

(***************************************************************************)
(* Configuration (conversation_handler.py, lines 10-31)                    *)
(***************************************************************************)
\* list(CAKE_CONFIG.keys())
VALID_FLAVORS ==
    << <<"v", "a", "n", "i", "l", "l", "a", " ", "b", "e", "a", "n">>,
       <<"c", "a", "r", "r", "o", "t">>,
       <<"l", "e", "m", "o", "n">>,
       <<"c", "o", "c", "o", "n", "u", "t">>,
       <<"m", "a", "r", "b", "l", "e">>,
       <<"c", "h", "o", "c", "o", "l", "a", "t", "e">>,
       <<"s", "t", "r", "a", "w", "b", "e", "r", "r", "y">>,
       <<"c", "o", "o", "k", "i", "e", "s", " ", "a", "n", "d", " ", "c", "r", "e", "a", "m">>,
       <<"r", "e", "d", " ", "v", "e", "l", "v", "e", "t">>,
       <<"b", "a", "n", "a", "n", "a", " ", "b", "r", "e", "a", "d">>,
       <<"c", "a", "r", "i", "b", "b", "e", "a", "n", " ", "f", "r", "u", "i", "t", "/", " ", "r", "u", "m">>,
       <<"b", "u", "t", "t", "e", "r", " ", "p", "e", "c", "a", "n">>,
       <<"w", "h", "i", "t", "e", " ", "c", "h", "o", "c", "o", "l", "a", "t", "e", " ", "s", "p", "o", "n", "g", "e">>,
       <<"p", "i", "n", "e", "a", "p", "p", "l", "e", " ", "s", "p", "o", "n", "g", "e">> >>

SIZES_ALL ==
    << <<"6">>, <<"8">>, <<"9">>, <<"1", "0">>, <<"1", "2">>,
       <<"q", "u", "a", "r", "t", "e", "r", " ", "s", "h", "e", "e", "t">>,
       <<"h", "a", "l", "f", " ", "s", "h", "e", "e", "t">> >>

SIZES_SMALL == << <<"6">>, <<"8">> >>

\* layers -> the sizes available for that number of layers
LAYER_SIZE_CONSTRAINTS ==
    [l \in {1, 2, 3} |-> IF l = 3 THEN SIZES_SMALL ELSE SIZES_ALL]

\* list(LAYER_SIZE_CONSTRAINTS.keys())
VALID_LAYERS == <<1, 2, 3>>

VALID_YES_NO == << <<"y", "e", "s">>, <<"y">>, <<"n", "o">>, <<"n">> >>

\* x in list
InList(x, list) == \E i \in DOMAIN list : list[i] = x

\* LAYER_SIZE_CONSTRAINTS.get(chosen_layers, [])
SizesFor(chosen_layers) ==
    IF chosen_layers \in DOMAIN LAYER_SIZE_CONSTRAINTS
    THEN LAYER_SIZE_CONSTRAINTS[chosen_layers]
    ELSE <<>>

(***************************************************************************)
(* Flow tables                                                             *)
(***************************************************************************)
\* Python's None, for a data_key or a next that a step does not have
None == "None"

\* a step without 'next_if'
NoBranch == <<>>

\* a step of a flow table
FlowStep(data_key, next, next_if) ==
    [data_key |-> data_key, next |-> next, next_if |-> next_if]

Branch(yes, no) == [k \in {"yes", "no"} |-> IF k = "yes" THEN yes ELSE no]

\* conversation_handler.FLOW_MAP
FLOW_MAP ==
    [s \in {"START", "ASK_DATE", "ASK_CUSTOM_PICTURE", "ASK_FLAVOR", "ASK_LAYERS",
            "ASK_SIZE", "ASK_TIERS", "ASK_COLOR", "ASK_THEME", "ASK_INDOORS",
            "ASK_AC", "ASK_CONFIRMATION"} |->
        CASE s = "START"              -> FlowStep(None, "ASK_DATE", NoBranch)
          [] s = "ASK_DATE"           -> FlowStep("event_date", "ASK_CUSTOM_PICTURE", NoBranch)
          [] s = "ASK_CUSTOM_PICTURE" -> FlowStep("has_picture", None,
                                                  Branch("ASK_FLAVOR", "ASK_FLAVOR"))
          [] s = "ASK_FLAVOR"         -> FlowStep("cake_flavor", "ASK_LAYERS", NoBranch)
          [] s = "ASK_LAYERS"         -> FlowStep("num_layers", "ASK_SIZE", NoBranch)
          [] s = "ASK_SIZE"           -> FlowStep("cake_size", "ASK_TIERS", NoBranch)
          [] s = "ASK_TIERS"          -> FlowStep("num_tiers", "ASK_COLOR", NoBranch)
          [] s = "ASK_COLOR"          -> FlowStep("cake_color", "ASK_THEME", NoBranch)
          [] s = "ASK_THEME"          -> FlowStep("cake_theme", "ASK_INDOORS", NoBranch)
          [] s = "ASK_INDOORS"        -> FlowStep("venue_indoors", "ASK_AC", NoBranch)
          [] s = "ASK_AC"             -> FlowStep("venue_ac", "ASK_CONFIRMATION", NoBranch)
          [] s = "ASK_CONFIRMATION"   -> FlowStep(None, None, Branch("SUMMARY", "START"))]

\* config.cake_config.FLOW_MAP, the table of the menu variant of the flow
CAKE_CONFIG_FLOW_MAP ==
    [s \in {"START", "MAIN_MENU", "VIEW_ORDERS", "ASK_DATE", "ASK_CUSTOM_PICTURE",
            "ASK_IMAGE_UPLOAD", "ASK_FLAVOR", "ASK_LAYERS", "ASK_SIZE", "ASK_TIERS",
            "ASK_COLOR", "ASK_THEME", "ASK_INDOORS", "ASK_AC", "ASK_CONFIRMATION",
            "SUMMARY"} |->
        CASE s = "START"              -> FlowStep(None, "MAIN_MENU", NoBranch)
          [] s = "MAIN_MENU"          -> FlowStep(None, None, NoBranch)
          [] s = "VIEW_ORDERS"        -> FlowStep(None, "MAIN_MENU", NoBranch)
          [] s = "ASK_DATE"           -> FlowStep("event_date", "ASK_CUSTOM_PICTURE", NoBranch)
          [] s = "ASK_CUSTOM_PICTURE" -> FlowStep("has_picture", None,
                                                  Branch("ASK_IMAGE_UPLOAD", "ASK_FLAVOR"))
          [] s = "ASK_IMAGE_UPLOAD"   -> FlowStep("image_url", "ASK_FLAVOR", NoBranch)
          [] s = "ASK_FLAVOR"         -> FlowStep("cake_flavor", "ASK_LAYERS", NoBranch)
          [] s = "ASK_LAYERS"         -> FlowStep("num_layers", "ASK_SIZE", NoBranch)
          [] s = "ASK_SIZE"           -> FlowStep("cake_size", "ASK_TIERS", NoBranch)
          [] s = "ASK_TIERS"          -> FlowStep("num_tiers", "ASK_COLOR", NoBranch)
          [] s = "ASK_COLOR"          -> FlowStep("cake_color", "ASK_THEME", NoBranch)
          [] s = "ASK_THEME"          -> FlowStep("cake_theme", "ASK_INDOORS", NoBranch)
          [] s = "ASK_INDOORS"        -> FlowStep("venue_indoors", "ASK_AC", NoBranch)
          [] s = "ASK_AC"             -> FlowStep("venue_ac", "ASK_CONFIRMATION", NoBranch)
          [] s = "ASK_CONFIRMATION"   -> FlowStep(None, None, Branch("SUMMARY", "MAIN_MENU"))
          [] s = "SUMMARY"            -> FlowStep(None, None, NoBranch)]

\* the steps a flow table can send the conversation to from step s
Targets(flow, s) ==
    {flow[s].next_if[k] : k \in DOMAIN flow[s].next_if}
        \cup (IF flow[s].next = None THEN {} ELSE {flow[s].next})

\* the steps of a flow table that lead to step t
Predecessors(flow, t) == {s \in DOMAIN flow : t \in Targets(flow, s)}

\* DISPLAY_KEY_MAP: data key and display name, in the order of the mapping
DISPLAY_KEY_MAP ==
    << <<"event_date", "Event Date">>,
       <<"cake_flavor", "Cake Flavor">>,
       <<"num_layers", "Number of Layers">>,
       <<"cake_size", "Cake Size">>,
       <<"num_tiers", "Number of Tiers">>,
       <<"cake_color", "Primary Color">>,
       <<"cake_theme", "Theme/Description">>,
       <<"venue_indoors", "Venue Indoors?">>,
       <<"venue_ac", "Venue with A/C?">>,
       <<"has_picture", "Picture Sent?">> >>

(***************************************************************************)
(* Conversation state                                                      *)
(***************************************************************************)
\* the empty data dictionary {}
EmptyData == [k \in {} |-> <<>>]

\* user_states.get(user_id, {'step': 'START', 'data': {}})
StateOf(states, user_id) ==
    IF user_id \in DOMAIN states
    THEN states[user_id]
    ELSE [step |-> "START", data |-> EmptyData]

\* a variant of SetState that assigns the state to every user of the map
SetState_every_user(states, user_id, state) ==
    [u \in DOMAIN states \cup {user_id} |-> state]

\* user_states[user_id] = state
SetState(states, user_id, state) ==
    [u \in DOMAIN states \cup {user_id} |-> IF u = user_id THEN state ELSE states[u]]

\* data[key] = value
SetItem(data, key, value) ==
    [k \in DOMAIN data \cup {key} |-> IF k = key THEN value ELSE data[k]]

(***************************************************************************)
(* Validation (conversation_handler._validate_input, lines 125-202)        *)
(***************************************************************************)
Feedback(tag, layers, options) == [tag |-> tag, layers |-> layers, options |-> options]

Valid == [ok |-> TRUE, feedback |-> Feedback("none", 0, <<>>)]

Invalid(tag, layers, options) == [ok |-> FALSE, feedback |-> Feedback(tag, layers, options)]

\* a variant of ValidateDate without the 24 hours of grace
ValidateDate_no_grace(incoming_message, clock) ==
    LET event_date == strptime(incoming_message)
    IN  IF ~event_date.ok THEN Invalid("date_format", 0, <<>>)
        ELSE IF Midnight(event_date.ordinal) < clock
             THEN Invalid("date_past", 0, <<>>)
             ELSE Valid

\* lines 133-141: the raw message is parsed; the date is at midnight
ValidateDate(incoming_message, clock) ==
    LET event_date == strptime(incoming_message)
    IN  IF ~event_date.ok THEN Invalid("date_format", 0, <<>>)
        ELSE IF Midnight(event_date.ordinal) < clock - HOURS_24
             THEN Invalid("date_past", 0, <<>>)
             ELSE Valid

\* lines 144-147
ValidateYesNo(message) ==
    IF InList(message, VALID_YES_NO) THEN Valid ELSE Invalid("yes_no", 0, <<>>)

\* a variant of ValidateFlavor that knows the first flavor only
ValidateFlavor_first_only(message) ==
    IF message = VALID_FLAVORS[1] THEN Valid ELSE Invalid("flavors", 0, VALID_FLAVORS)

\* lines 150-153
ValidateFlavor(message) ==
    IF InList(message, VALID_FLAVORS) THEN Valid ELSE Invalid("flavors", 0, VALID_FLAVORS)

\* a variant of ValidateLayers that accepts every number
ValidateLayers_any_number(incoming_message) ==
    IF int(incoming_message).ok THEN Valid ELSE Invalid("layers_not_a_number", 0, <<>>)

\* lines 156-163
ValidateLayers(incoming_message) ==
    LET requested_layers == int(incoming_message)
    IN  IF ~requested_layers.ok THEN Invalid("layers_not_a_number", 0, <<>>)
        ELSE IF InList(requested_layers.val, VALID_LAYERS) THEN Valid
             ELSE Invalid("layers_unsupported", 0, VALID_LAYERS)

\* a variant of ValidateSize that also asks for the flavor to be chosen
ValidateSize_reads_flavor(user_data, message) ==
    LET chosen_layers == IF "num_layers" \in DOMAIN user_data
                         THEN int(user_data["num_layers"])
                         ELSE [ok |-> FALSE, val |-> 0]
        valid_sizes_for_layers == SizesFor(chosen_layers.val)
    IN  IF ~chosen_layers.ok \/ "cake_flavor" \notin DOMAIN user_data
        THEN Invalid("layers_first", 0, <<>>)
        ELSE IF InList(message, valid_sizes_for_layers) THEN Valid
             ELSE Invalid("size_unavailable", chosen_layers.val, valid_sizes_for_layers)

\* a variant of ValidateSize that takes one layer when num_layers is missing
\* or is not a number
ValidateSize_default_layers(user_data, message) ==
    LET parsed == IF "num_layers" \in DOMAIN user_data
                  THEN int(user_data["num_layers"])
                  ELSE [ok |-> FALSE, val |-> 0]
        chosen_layers == IF parsed.ok THEN parsed ELSE [ok |-> TRUE, val |-> 1]
        valid_sizes_for_layers == SizesFor(chosen_layers.val)
    IN  IF InList(message, valid_sizes_for_layers) THEN Valid
        ELSE Invalid("size_unavailable", chosen_layers.val, valid_sizes_for_layers)

\* a variant of ValidateSize that offers the sizes of one layer for every
\* number of layers
ValidateSize_any_layers(user_data, message) ==
    LET chosen_layers == IF "num_layers" \in DOMAIN user_data
                         THEN int(user_data["num_layers"])
                         ELSE [ok |-> FALSE, val |-> 0]
        valid_sizes_for_layers == SizesFor(1)
    IN  IF ~chosen_layers.ok THEN Invalid("layers_first", 0, <<>>)
        ELSE IF InList(message, valid_sizes_for_layers) THEN Valid
             ELSE Invalid("size_unavailable", chosen_layers.val, valid_sizes_for_layers)

\* lines 166-183: user_data is the data of the user in user_states
ValidateSize(user_data, message) ==
    LET chosen_layers == IF "num_layers" \in DOMAIN user_data
                         THEN int(user_data["num_layers"])
                         ELSE [ok |-> FALSE, val |-> 0]
        valid_sizes_for_layers == SizesFor(chosen_layers.val)
    IN  IF ~chosen_layers.ok THEN Invalid("layers_first", 0, <<>>)
        ELSE IF InList(message, valid_sizes_for_layers) THEN Valid
             ELSE Invalid("size_unavailable", chosen_layers.val, valid_sizes_for_layers)

\* a variant of ValidateTiers that allows six tiers
ValidateTiers_up_to_six(incoming_message) ==
    LET number == int(incoming_message)
    IN  IF ~number.ok THEN Invalid("tiers_not_a_number", 0, <<>>)
        ELSE IF 1 <= number.val /\ number.val <= 6 THEN Valid
             ELSE Invalid("tiers_range", 0, <<>>)

\* lines 187-194
ValidateTiers(incoming_message) ==
    LET number == int(incoming_message)
    IN  IF ~number.ok THEN Invalid("tiers_not_a_number", 0, <<>>)
        ELSE IF 1 <= number.val /\ number.val <= 5 THEN Valid
             ELSE Invalid("tiers_range", 0, <<>>)

\* lines 198-200
ValidateText(message) ==
    IF Len(message) < 2 THEN Invalid("too_short", 0, <<>>) ELSE Valid

\* _validate_input(user_id, current_step, incoming_message), reading
\* user_states and datetime.now()
_validate_input(states, clock, user_id, current_step, incoming_message) ==
    LET message == lower(strip(incoming_message))
    IN  CASE current_step = "ASK_DATE" -> ValidateDate(incoming_message, clock)
          [] current_step \in {"ASK_CUSTOM_PICTURE", "ASK_INDOORS", "ASK_AC",
                               "ASK_CONFIRMATION"} -> ValidateYesNo(message)
          [] current_step = "ASK_FLAVOR" -> ValidateFlavor(message)
          [] current_step = "ASK_LAYERS" -> ValidateLayers(incoming_message)
          [] current_step = "ASK_SIZE" ->
                ValidateSize(IF user_id \in DOMAIN states
                             THEN states[user_id].data ELSE EmptyData, message)
          [] current_step = "ASK_TIERS" -> ValidateTiers(incoming_message)
          [] current_step \in {"ASK_THEME", "ASK_COLOR"} -> ValidateText(message)
          [] OTHER -> Valid

(***************************************************************************)
(* Replies                                                                 *)
(***************************************************************************)
\* A reply text, by its parts: what it is, the step whose question it ends
\* with, the validation feedback and the summary lines it contains.
Reply(kind, step, feedback, summary) ==
    [kind |-> kind, step |-> step, feedback |-> feedback, summary |-> summary]

\* FLOW_MAP[step]['question']
Question(step) == Reply("question", step, Valid.feedback, <<>>)

\* a variant of ValidationError that repeats the question of START
ValidationError_first_question(feedback, step) ==
    Reply("validation_error", "START", feedback, <<>>)

\* the sizes that the question of a step names.  FLOW_MAP['ASK_SIZE']
\* ['question'] is one fixed text: "What size cake? Please enter the size in
\* inches (e.g., **8** or **10**), or type **quarter sheet** or **half
\* sheet**."; no other question names a size.
QuestionSizes(step) ==
    IF step = "ASK_SIZE"
    THEN {<<"8">>, <<"1", "0">>,
          <<"q", "u", "a", "r", "t", "e", "r", " ", "s", "h", "e", "e", "t">>,
          <<"h", "a", "l", "f", " ", "s", "h", "e", "e", "t">>}
    ELSE {}

\* line 258: the validation error followed by the question of the step
ValidationError(feedback, step) == Reply("validation_error", step, feedback, <<>>)

\* line 283: "Order canceled. Starting over:" and the question of START
Canceled == Reply("canceled", "START", Valid.feedback, <<>>)

\* line 292: the summary and the question of ASK_CONFIRMATION
Review(summary) == Reply("review", "ASK_CONFIRMATION", Valid.feedback, summary)

\* line 233: "Thank you! Your confirmed order details have been saved, ..."
ThankYou == Reply("thank_you_saved", None, Valid.feedback, <<>>)

\* line 303: "I'm sorry, I've lost my place. Please type 'restart' ..."
LostMyPlace == Reply("lost_my_place", None, Valid.feedback, <<>>)

\* no reply: the call raised
NoReply == Reply("none", None, Valid.feedback, <<>>)

(***************************************************************************)
(* Summary and finalization (lines 206-238)                                *)
(***************************************************************************)
RECURSIVE SummaryLines(_, _)
SummaryLines(final_data, i) ==
    IF i > Len(DISPLAY_KEY_MAP) THEN <<>>
    ELSE LET data_key == DISPLAY_KEY_MAP[i][1]
             display_name == DISPLAY_KEY_MAP[i][2]
         IN  (IF data_key \in DOMAIN final_data
              THEN << [name |-> display_name, value |-> final_data[data_key]] >>
              ELSE <<>>) \o SummaryLines(final_data, i + 1)

\* a variant of SummaryLines that has a line for every field of the mapping
RECURSIVE SummaryLines_all_fields(_, _)
SummaryLines_all_fields(final_data, i) ==
    IF i > Len(DISPLAY_KEY_MAP) THEN <<>>
    ELSE LET data_key == DISPLAY_KEY_MAP[i][1]
             display_name == DISPLAY_KEY_MAP[i][2]
         IN  << [name |-> display_name,
                 value |-> IF data_key \in DOMAIN final_data
                           THEN final_data[data_key] ELSE <<>>] >>
                 \o SummaryLines_all_fields(final_data, i + 1)

\* a variant of _generate_summary_response that lists absent fields too
_generate_summary_response_all_fields(final_data) == SummaryLines_all_fields(final_data, 1)

\* _generate_summary_response: one labeled line per field of DISPLAY_KEY_MAP
\* that data holds
_generate_summary_response(final_data) == SummaryLines(final_data, 1)

\* the results save_order_data can return: True when the row was appended,
\* False when the sheet is not initialised or append_row raised
save_order_data == BOOLEAN

\* a variant of _final_save_and_end that passes the data to save_order_data
\* twice
_final_save_and_end_twice(user_id, data) ==
    LET final_data == SetItem(data, "user_id", user_id)
    IN  [state |-> [step |-> "COMPLETE", data |-> final_data],
         saved |-> << final_data, final_data >>,
         calendar |-> <<>>,
         reply |-> ThankYou]

\* a variant of _final_save_and_end that leaves the user at ASK_CONFIRMATION
_final_save_and_end_stays(user_id, data) ==
    LET final_data == SetItem(data, "user_id", user_id)
    IN  [state |-> [step |-> "ASK_CONFIRMATION", data |-> final_data],
         saved |-> << final_data >>,
         calendar |-> <<>>,
         reply |-> ThankYou]

\* a variant of _final_save_and_end that ends the conversation without the
\* call of save_order_data
_final_save_and_end_unsaved(user_id, data) ==
    LET final_data == SetItem(data, "user_id", user_id)
    IN  [state |-> [step |-> "COMPLETE", data |-> final_data],
         saved |-> <<>>,
         calendar |-> <<>>,
         reply |-> ThankYou]

\* a variant of _final_save_and_end that clears the data after the save
_final_save_and_end_clears(user_id, data) ==
    LET final_data == SetItem(data, "user_id", user_id)
    IN  [state |-> [step |-> "COMPLETE", data |-> EmptyData],
         saved |-> << final_data >>,
         calendar |-> <<>>,
         reply |-> ThankYou]

\* _final_save_and_end: user_id is put into the data of the user, the data is
\* passed to save_order_data, whose result is dropped, and the state of the
\* user becomes COMPLETE with the same data.  No calendar call is made.
_final_save_and_end(user_id, data) ==
    LET final_data == SetItem(data, "user_id", user_id)
    IN  [state |-> [step |-> "COMPLETE", data |-> final_data],
         saved |-> << final_data >>,
         calendar |-> <<>>,
         reply |-> ThankYou]

(***************************************************************************)
(* The engine (conversation_handler._get_next_step, lines 240-303)         *)
(***************************************************************************)
RESTART == <<"r", "e", "s", "t", "a", "r", "t">>

\* a variant of IsRestart that does not trim the message
IsRestart_untrimmed(incoming_message) == lower(incoming_message) = RESTART

\* line 246: the keyword that resets the conversation
IsRestart(incoming_message) == strip(lower(incoming_message)) = RESTART

\* a variant of FreshState that always assigns the step START
FreshState_at_start(step) == [step |-> "START", data |-> EmptyData]

\* lines 247, 251 and 282: the states that are assigned with empty data
FreshState(step) == [step |-> step, data |-> EmptyData]

\* a variant of Rejects that turns every message away
Rejects_always(is_valid) == TRUE

\* a variant of Rejects that lets every message through
Rejects_never(is_valid) == FALSE

\* line 257: the message is turned away
Rejects(is_valid) == ~is_valid

\* line 261: FLOW_MAP.get(current_step, {}).get('data_key')
DataKey(current_step) ==
    IF current_step \in DOMAIN FLOW_MAP THEN FLOW_MAP[current_step].data_key ELSE None

\* a variant of StoreAnswer that stores nothing
StoreAnswer_nowhere(data, current_step, incoming_message) == data

\* a variant of StoreAnswer that stores the trimmed, lowercased message
StoreAnswer_normalized(data, current_step, incoming_message) ==
    IF DataKey(current_step) # None
    THEN SetItem(data, DataKey(current_step), lower(strip(incoming_message)))
    ELSE data

\* lines 262-263: the raw message is stored under the data key of the step
StoreAnswer(data, current_step, incoming_message) ==
    IF DataKey(current_step) # None
    THEN SetItem(data, DataKey(current_step), incoming_message)
    ELSE data

\* a variant of BranchKey that does not trim the message
BranchKey_untrimmed(incoming_message) ==
    LET key == lower(incoming_message)
    IN  IF key \in {<<"y">>, <<"y", "e", "s">>} THEN "yes"
        ELSE IF key \in {<<"n">>, <<"n", "o">>} THEN "no"
        ELSE "other"

\* a variant of BranchKey that knows the words yes and no only
BranchKey_words_only(incoming_message) ==
    LET key == strip(lower(incoming_message))
    IN  IF key = <<"y", "e", "s">> THEN "yes"
        ELSE IF key = <<"n", "o">> THEN "no"
        ELSE "other"

\* lines 271-276: the key of the branch table
BranchKey(incoming_message) ==
    LET key == strip(lower(incoming_message))
    IN  IF key \in {<<"y">>, <<"y", "e", "s">>} THEN "yes"
        ELSE IF key \in {<<"n">>, <<"n", "o">>} THEN "no"
        ELSE "other"

\* a variant of NextStep that goes from ASK_LAYERS straight to ASK_TIERS
NextStep_skips_size(current_step, incoming_message) ==
    LET entry == FLOW_MAP[current_step]
        key == BranchKey(incoming_message)
    IN  IF current_step = "ASK_LAYERS" THEN FLOW_MAP[entry.next].next
        ELSE IF DOMAIN entry.next_if # {}
        THEN (IF key \in DOMAIN entry.next_if THEN entry.next_if[key] ELSE entry.next)
        ELSE entry.next

\* a variant of NextStep that never leaves the step
NextStep_stays(current_step, incoming_message) == current_step

\* lines 266-278: the next step of a step of the flow table
NextStep(current_step, incoming_message) ==
    LET entry == FLOW_MAP[current_step]
        key == BranchKey(incoming_message)
    IN  IF DOMAIN entry.next_if # {}
        THEN (IF key \in DOMAIN entry.next_if THEN entry.next_if[key] ELSE entry.next)
        ELSE entry.next

\* What one call does: the new user_states, the reply, the exception it
\* raised, the records passed to save_order_data and create_calendar_event,
\* what it wrote to the data of the user, and what the validation said
\* ("not_validated" when the call returned before it, lines 246-252).
Result(states, reply, raised, saved, calendar, wrote, emptied, verdict) ==
    [user_states |-> states, reply |-> reply, raised |-> raised, saved |-> saved,
     calendar |-> calendar, wrote |-> wrote, emptied |-> emptied, verdict |-> verdict]

\* lines 246-303 of _get_next_step: what the handler does once it has read
\* current_step (line 243); every later access reads user_states again
_get_next_step_from(states, clock, user_id, incoming_message, current_step) ==
    LET state == StateOf(states, user_id)
        v == _validate_input(states, clock, user_id, current_step, incoming_message)
        data == StoreAnswer(state.data, current_step, incoming_message)
        wrote == IF DataKey(current_step) # None
                 THEN << [key |-> DataKey(current_step),
                          step |-> current_step,
                          message |-> incoming_message,
                          ok |-> v.ok] >>
                 ELSE <<>>
        stored == IF DataKey(current_step) # None
                  THEN SetState(states, user_id, [step |-> state.step, data |-> data])
                  ELSE states
        next_step == NextStep(current_step, incoming_message)
        final == _final_save_and_end(user_id, data)
        verdict == IF v.ok THEN "valid" ELSE "invalid"
    IN  IF IsRestart(incoming_message)
        THEN Result(SetState(states, user_id, FreshState("START")),
                    Question("START"), None, <<>>, <<>>, <<>>, TRUE, "not_validated")
        ELSE IF current_step = "START"
        THEN Result(SetState(states, user_id, FreshState("ASK_DATE")),
                    Question("ASK_DATE"), None, <<>>, <<>>, <<>>, TRUE, "not_validated")
        ELSE IF Rejects(v.ok)
        THEN (IF current_step \in DOMAIN FLOW_MAP
              THEN Result(states, ValidationError(v.feedback, current_step),
                          None, <<>>, <<>>, <<>>, FALSE, verdict)
              ELSE Result(states, NoReply, "KeyError", <<>>, <<>>, <<>>, FALSE, verdict))
        ELSE IF current_step \notin DOMAIN FLOW_MAP
        THEN \* line 266: FLOW_MAP[current_step] of a step outside the table
             Result(stored, NoReply, "KeyError", <<>>, <<>>, wrote, FALSE, verdict)
        ELSE IF DOMAIN FLOW_MAP[current_step].next_if # {}
                /\ next_step = "START" /\ current_step = "ASK_CONFIRMATION"
        THEN Result(SetState(states, user_id, FreshState("START")),
                    Canceled, None, <<>>, <<>>, wrote, TRUE, verdict)
        ELSE IF next_step = "ASK_CONFIRMATION"
        THEN Result(SetState(states, user_id, [step |-> "ASK_CONFIRMATION", data |-> data]),
                    Review(_generate_summary_response(data)),
                    None, <<>>, <<>>, wrote, FALSE, verdict)
        ELSE IF next_step = "SUMMARY"
        THEN Result(SetState(states, user_id, final.state),
                    final.reply, None, final.saved, final.calendar, wrote, FALSE, verdict)
        ELSE IF next_step # None
        THEN (IF next_step \in DOMAIN FLOW_MAP
              THEN Result(SetState(states, user_id, [step |-> next_step, data |-> data]),
                          Question(next_step), None, <<>>, <<>>, wrote, FALSE, verdict)
              ELSE Result(SetState(states, user_id, [step |-> next_step, data |-> data]),
                          NoReply, "KeyError", <<>>, <<>>, wrote, FALSE, verdict))
        ELSE Result(stored, LostMyPlace, None, <<>>, <<>>, wrote, FALSE, verdict)

\* _get_next_step(user_id, incoming_message), run without interruption: the
\* step is read (lines 242-243) and acted on at once
_get_next_step(states, clock, user_id, incoming_message) ==
    _get_next_step_from(states, clock, user_id, incoming_message,
                        StateOf(states, user_id).step)

(***************************************************************************)
(* The environment: the users, the messages they send, the clock           *)
(***************************************************************************)
USER_1 == <<"1">>

Users == {USER_1}

M_restart == <<"r", "e", "s", "t", "a", "r", "t">>
M_Restart_padded == <<" ", "R", "e", "s", "t", "a", "r", "t", " ">>
M_reset == <<"r", "e", "s", "e", "t">>
M_yes == <<"y", "e", "s">>
M_No_padded == <<" ", "N", "o">>
M_date == <<"2", "5", "/", "1", "2", "/", "2", "0", "2", "6">>
M_lemon == <<"l", "e", "m", "o", "n">>
M_2 == <<"2">>
M_3_padded == <<" ", "3">>
M_8_padded == <<" ", "8">>
M_9 == <<"9">>

\* the messages the users send
Messages ==
    {M_restart, M_Restart_padded, M_reset, M_yes, M_No_padded, M_date,
     M_lemon, M_2, M_3_padded, M_8_padded, M_9}

\* the clock starts at midnight of the day after the date of M_date: the
\* date is then exactly 24 hours old and still accepted; half a day later
\* it is in the past
NowStart == Midnight(strptime(M_date).ordinal + 1)

\* how many half days the clock advances
MaxTicks == 1

(***************************************************************************)
(* State machine                                                           *)
(***************************************************************************)
NoCall ==
    [called |-> FALSE, user |-> <<>>, message |-> <<>>, step |-> "START",
     known |-> FALSE, unchanged |-> TRUE, verdict |-> "not_validated",
     reply |-> NoReply, raised |-> None,
     saved |-> <<>>, save_results |-> <<>>, calendar |-> <<>>]

\* the history of the data of a user: key -> the write that set it
WrittenOf(user_id) ==
    IF user_id \in DOMAIN written THEN written[user_id] ELSE EmptyData

PersistCallsOf(user_id) ==
    IF user_id \in DOMAIN persist_calls THEN persist_calls[user_id] ELSE 0

\* no process_whatsapp_message call is the last operation
NoWebhook ==
    [called |-> FALSE, user |-> <<>>, type |-> "none", text |-> <<>>,
     media |-> "not_fetched", sent |-> NoReply, engine |-> "not_called"]

\* no handler is running
NoHandlers == [h \in {} |-> [user |-> <<>>, message |-> <<>>, current_step |-> "START"]]

RECURSIVE ApplyWrites(_, _)
ApplyWrites(w, wrote) ==
    IF wrote = <<>> THEN w
    ELSE ApplyWrites(SetItem(w, Head(wrote).key, Head(wrote)), Tail(wrote))

Init ==
    /\ user_states = [u \in {} |-> FreshState("START")]
    /\ now = NowStart
    /\ last = NoCall
    /\ written = [u \in {} |-> EmptyData]
    /\ persist_calls = [u \in {} |-> 0]
    /\ webhook = NoWebhook
    /\ inflight = NoHandlers
    /\ overlaps = 0
    /\ streak = 0

\* the effects of one get_response call on the states, the saved data and
\* the record of the last call, once it has read current_step
Respond(user_id, incoming_message, current_step) ==
    \E r \in {_get_next_step_from(user_states, now, user_id, incoming_message,
                                  current_step)} :
        /\ user_states' = r.user_states
        /\ \E results \in [DOMAIN r.saved -> save_order_data] :
              last' = [called |-> TRUE,
                       user |-> user_id,
                       message |-> incoming_message,
                       step |-> current_step,
                       known |-> user_id \in DOMAIN user_states,
                       unchanged |-> r.user_states = user_states,
                       verdict |-> r.verdict,
                       reply |-> r.reply,
                       raised |-> r.raised,
                       saved |-> r.saved,
                       save_results |-> results,
                       calendar |-> r.calendar]
        /\ written' = SetState(written, user_id,
                               IF r.emptied THEN EmptyData
                               ELSE ApplyWrites(WrittenOf(user_id), r.wrote))
        /\ persist_calls' = SetState(persist_calls, user_id,
                                     IF r.emptied THEN 0
                                     ELSE PersistCallsOf(user_id) + Len(r.saved))

\* get_response(user_id, incoming_message): one message handled as a whole
get_response(user_id, incoming_message) ==
    /\ Respond(user_id, incoming_message, StateOf(user_states, user_id).step)
    /\ webhook' = NoWebhook
    /\ UNCHANGED <<now, inflight, overlaps, streak>>

\* time passes between two messages
Tick ==
    /\ now < NowStart + MaxTicks
    /\ now' = now + 1
    /\ UNCHANGED <<user_states, last, written, persist_calls, webhook, inflight, overlaps, streak>>

Next ==
    \/ \E user_id \in Users, incoming_message \in Messages :
          get_response(user_id, incoming_message)
    \/ Tick

Spec == Init /\ [][Next]_vars

(***************************************************************************)
(* Properties                                                              *)
(***************************************************************************)
\* the message of the last call, trimmed and lowercased
Normalized(incoming_message) == lower(strip(incoming_message))

\* the state of the user of the last call
Cur == StateOf(user_states, last.user)

\* the outcome of handling one more message in the current state
Probe(user_id, incoming_message) ==
    _get_next_step(user_states, now, user_id, incoming_message)

RestartForms ==
    {<<"R", "E", "S", "T", "A", "R", "T">>, <<"r", "e", "s", "t", "a", "r", "t", " ", " ">>}

\* C1: a message that is 'restart' once trimmed and lowercased puts the user
\* at START with empty data and is answered with the question of START,
\* whatever the step and the data were; nothing is validated, stored or
\* saved.  The same holds for the message sent again, and for every spelling
\* of the keyword in every reachable state.
C1_RestartResets ==
    /\ (last.called /\ Normalized(last.message) = RESTART) =>
          /\ last.user \in DOMAIN user_states
          /\ user_states[last.user] = [step |-> "START", data |-> EmptyData]
          /\ last.reply = Question("START")
          /\ last.raised = None
          /\ last.verdict = "not_validated"
          /\ last.saved = <<>>
          /\ WrittenOf(last.user) = EmptyData
    /\ \A u \in Users, m \in RestartForms : \A r \in {Probe(u, m)} :
          /\ r.user_states[u] = [step |-> "START", data |-> EmptyData]
          /\ r.reply = Question("START")
          /\ r.wrote = <<>>
          /\ r.saved = <<>>

\* C1 witness: the padded, capitalised keyword sent at ASK_COLOR, after six answers
C1_Witness ==
    /\ last.called
    /\ last.message = M_Restart_padded
    /\ last.step = "ASK_COLOR"
    /\ user_states[last.user] = [step |-> "START", data |-> EmptyData]

CollectedFields ==
    {"event_date", "has_picture", "cake_flavor", "num_layers", "cake_size",
     "num_tiers", "cake_color", "cake_theme", "venue_indoors", "venue_ac"}

YES == {<<"y", "e", "s">>, <<"y">>}

NO == {<<"n", "o">>, <<"n">>}

\* C2: 'yes' at ASK_CONFIRMATION, which is reached only by a valid answer at
\* every step, makes exactly one save_order_data call in the conversation;
\* the record passed has exactly the ten collected fields and user_id, each
\* field with the message the user gave for it.
C2_RoundTrip ==
    (last.called /\ last.step = "ASK_CONFIRMATION" /\ Normalized(last.message) \in YES) =>
        /\ Len(last.saved) = 1
        /\ PersistCallsOf(last.user) = 1
        /\ DOMAIN last.saved[1] = CollectedFields \cup {"user_id"}
        /\ last.saved[1]["user_id"] = last.user
        /\ DOMAIN WrittenOf(last.user) = CollectedFields
        /\ \A k \in CollectedFields :
              /\ last.saved[1][k] = WrittenOf(last.user)[k].message
              /\ WrittenOf(last.user)[k].ok

\* C2 witness: a saved record that holds the layers and the size as they were typed
C2_Witness ==
    /\ last.called
    /\ last.step = "ASK_CONFIRMATION"
    /\ last.message = M_yes
    /\ Len(last.saved) = 1
    /\ last.saved[1]["num_layers"] = M_3_padded
    /\ last.saved[1]["cake_size"] = M_8_padded
    /\ last.saved[1]["cake_color"] = M_reset

NoForms == {<<"n", "o">>, <<"n">>, <<"N", "O", " ">>, <<" ", "N">>}

\* C3: at ASK_CONFIRMATION a message that is 'no' or 'n' once trimmed and
\* lowercased empties the data, puts the user at START, is answered with the
\* cancellation notice and saves nothing.
C3_DeclineClears ==
    /\ (last.called /\ last.step = "ASK_CONFIRMATION"
            /\ Normalized(last.message) \in NO) =>
          /\ user_states[last.user] = [step |-> "START", data |-> EmptyData]
          /\ last.reply = Canceled
          /\ last.raised = None
          /\ last.saved = <<>>
          /\ PersistCallsOf(last.user) = 0
    /\ \A u \in DOMAIN user_states, m \in NoForms :
          user_states[u].step = "ASK_CONFIRMATION" => \A r \in {Probe(u, m)} :
              /\ r.user_states[u] = [step |-> "START", data |-> EmptyData]
              /\ r.reply = Canceled
              /\ r.saved = <<>>

\* C3 witness: the order declined with ' No' after all ten answers
C3_Witness ==
    /\ last.called
    /\ last.step = "ASK_CONFIRMATION"
    /\ last.message = M_No_padded
    /\ last.reply = Canceled
    /\ user_states[last.user] = [step |-> "START", data |-> EmptyData]

C5_AlwaysReplies ==
    last.called =>
        /\ last.raised = None
        /\ last.reply.kind # "none"
        /\ (last.step \notin DOMAIN FLOW_MAP /\ Normalized(last.message) # RESTART) =>
              (last.reply = LostMyPlace /\ last.unchanged)

\* C6, as claimed: when save_order_data returns False the user is not told
\* that the order was saved and the conversation is not marked complete.
C6_SaveFailureSurfaced ==
    (last.called /\ last.saved # <<>> /\ last.save_results[1] = FALSE) =>
        /\ last.reply # ThankYou
        /\ Cur.step # "COMPLETE"

\* C7, as claimed: 'yes' at ASK_CONFIRMATION makes one save_order_data call
\* and one create_calendar_event call and is answered with the thank-you.
C7_YesSavesAndSchedules ==
    (last.called /\ last.step = "ASK_CONFIRMATION" /\ Normalized(last.message) \in YES) =>
        /\ Len(last.saved) = 1
        /\ Len(last.calendar) = 1
        /\ last.reply = ThankYou

RESET == <<"r", "e", "s", "e", "t">>

\* C8, as claimed: a message that is 'reset' once trimmed and lowercased puts
\* the user at START with empty data and is neither validated nor stored.
C8_ResetKeyword ==
    (last.called /\ Normalized(last.message) = RESET) =>
        /\ user_states[last.user] = [step |-> "START", data |-> EmptyData]
        /\ last.verdict = "not_validated"
        /\ WrittenOf(last.user) = EmptyData

\* the number of layers stored for a user
StoredLayers(data) == int(data["num_layers"])

SizeProbes ==
    {<<"1", "0">>, <<"H", "a", "l", "f", " ", "S", "h", "e", "e", "t">>, <<"6", " ">>,
     <<"7">>, <<"1", "2">>}

\* the reply to a size that is not offered for L layers
SizeUnavailable(L) ==
    ValidationError(Feedback("size_unavailable", L, SizesFor(L)), "ASK_SIZE")

\* the acceptance rule of ASK_SIZE: with L layers stored a message is accepted
\* only if, trimmed and lowercased, it is one of the sizes configured for L
\* (for three layers only '6' and '8'); any other message is answered with
\* the error that lists the sizes of L, and the state stays as it was
SizeRule ==
    /\ SizesFor(3) = << <<"6">>, <<"8">> >>
    /\ (last.called /\ last.step = "ASK_SIZE" /\ Normalized(last.message) # RESTART) =>
          /\ "num_layers" \in DOMAIN Cur.data
          /\ StoredLayers(Cur.data).ok
          /\ IF InList(Normalized(last.message), SizesFor(StoredLayers(Cur.data).val))
             THEN TRUE
             ELSE /\ last.unchanged
                  /\ Cur.step = "ASK_SIZE"
                  /\ last.reply = SizeUnavailable(StoredLayers(Cur.data).val)
    /\ \A u \in DOMAIN user_states, m \in SizeProbes :
          user_states[u].step = "ASK_SIZE" => \A r \in {Probe(u, m)} :
              IF InList(Normalized(m), SizesFor(StoredLayers(user_states[u].data).val))
              THEN TRUE
              ELSE /\ r.user_states = user_states
                   /\ r.reply = SizeUnavailable(StoredLayers(user_states[u].data).val)

\* C9 as stated: the acceptance rule of ASK_SIZE holds and, consequently, a
\* stored cake_size is itself a member of the size set of the stored
\* num_layers.  The stored value is the message as it was sent (' 8'), which
\* is not a member of the set ('8').
C9_StoredSizeInSet ==
    /\ SizeRule
    /\ \A u \in DOMAIN user_states :
          "cake_size" \in DOMAIN user_states[u].data =>
              /\ "num_layers" \in DOMAIN user_states[u].data
              /\ StoredLayers(user_states[u].data).ok
              /\ InList(user_states[u].data["cake_size"],
                        SizesFor(StoredLayers(user_states[u].data).val))

\* C9: the acceptance rule of ASK_SIZE holds and a stored cake_size, trimmed
\* and lowercased, is one of the sizes configured for the number that the
\* stored num_layers parses to.
C9_SizeFitsLayers ==
    /\ SizeRule
    /\ \A u \in DOMAIN user_states :
          "cake_size" \in DOMAIN user_states[u].data =>
              /\ "num_layers" \in DOMAIN user_states[u].data
              /\ StoredLayers(user_states[u].data).ok
              /\ InList(Normalized(user_states[u].data["cake_size"]),
                        SizesFor(StoredLayers(user_states[u].data).val))

\* C9 witness: ' 8' accepted for the three layers of ' 3' and stored as sent
C9_Witness ==
    /\ last.called
    /\ last.step = "ASK_SIZE"
    /\ last.message = M_8_padded
    /\ Cur.data["num_layers"] = M_3_padded
    /\ Cur.data["cake_size"] = M_8_padded
    /\ Cur.step = "ASK_TIERS"
    /\ written[last.user]["cake_size"].ok

\* C10: a user at ASK_SIZE has a num_layers that parses to an allowed number
\* of layers; a call leaves a user at ASK_SIZE only by a valid layers answer
\* at ASK_LAYERS, or by a message turned away at ASK_SIZE; in both flow
\* tables ASK_LAYERS is the only step that leads to ASK_SIZE.
C10_SizeAfterLayers ==
    /\ \A u \in DOMAIN user_states :
          user_states[u].step = "ASK_SIZE" =>
              /\ "num_layers" \in DOMAIN user_states[u].data
              /\ StoredLayers(user_states[u].data).ok
              /\ InList(StoredLayers(user_states[u].data).val, VALID_LAYERS)
    /\ (last.called /\ Cur.step = "ASK_SIZE" /\ ~last.unchanged) =>
          /\ last.step = "ASK_LAYERS"
          /\ last.verdict = "valid"
          /\ Cur.data["num_layers"] = last.message
    /\ (last.called /\ Cur.step = "ASK_SIZE" /\ last.unchanged) =>
          (last.step = "ASK_SIZE" /\ last.verdict = "invalid")
    /\ Predecessors(FLOW_MAP, "ASK_SIZE") = {"ASK_LAYERS"}
    /\ Predecessors(CAKE_CONFIG_FLOW_MAP, "ASK_SIZE") = {"ASK_LAYERS"}

\* C10 witness: ASK_SIZE entered with the layers answer ' 3'
C10_Witness ==
    /\ last.called
    /\ last.step = "ASK_LAYERS"
    /\ last.message = M_3_padded
    /\ Cur.step = "ASK_SIZE"
    /\ StoredLayers(Cur.data).val = 3

\* messages that few steps accept: one letter, the empty message, a number
\* out of every range
InvalidProbes == {<<"x">>, <<>>, <<"9", "9">>, <<" ", "?", " ">>}

\* C11: a message that fails the validation of its step leaves the step and
\* the data of the user as they were, makes no save_order_data and no
\* calendar call, raises nothing, and is answered with the validation error
\* followed by the question of that same step; in the state such a message
\* leaves, the next message that fails the validation is handled the same
\* way, so this holds for any run of invalid messages.
C11_InvalidKeepsState ==
    /\ (last.called /\ last.verdict = "invalid") =>
          /\ last.unchanged
          /\ Cur.step = last.step
          /\ last.saved = <<>>
          /\ last.calendar = <<>>
          /\ last.raised = None
          /\ last.reply.kind = "validation_error"
          /\ last.reply.step = last.step
          /\ last.reply.feedback.tag # "none"
          /\ last.reply.summary = <<>>
    /\ (last.called /\ last.verdict = "invalid") =>
          \A m \in Messages \cup InvalidProbes : \A r \in {Probe(last.user, m)} :
              r.verdict = "invalid" =>
                  /\ r.user_states = user_states
                  /\ r.saved = <<>>
                  /\ r.calendar = <<>>
                  /\ r.raised = None
                  /\ r.wrote = <<>>
                  /\ r.reply.kind = "validation_error"
                  /\ r.reply.step = Cur.step
                  /\ r.reply.feedback.tag # "none"

\* C11 witness: '9' turned away at ASK_FLAVOR with two answers stored, in a
\* state where 'x' would be turned away next
C11_Witness ==
    /\ last.called
    /\ last.verdict = "invalid"
    /\ last.step = "ASK_FLAVOR"
    /\ last.message = M_9
    /\ DOMAIN Cur.data = {"event_date", "has_picture"}
    /\ Probe(last.user, <<"x">>).verdict = "invalid"
    /\ Probe(last.user, <<"x">>).user_states = user_states

\* spellings of yes and of other answers, sent at any step
YesForms == {<<"y">>, <<"Y", "E", "S", " ">>, <<" ", "Y">>}

\* a call made the step of user u COMPLETE
BecomesComplete(u) ==
    /\ u \in DOMAIN user_states'
    /\ user_states'[u].step = "COMPLETE"
    /\ StateOf(user_states, u).step # "COMPLETE"

\* C12: the step of a user becomes COMPLETE only in the call that handles a
\* yes at ASK_CONFIRMATION, and that call has passed the data of the user to
\* save_order_data exactly once; a valid answer elsewhere, an invalid answer,
\* a no and a restart never set COMPLETE.  The same holds for every message
\* of the alphabet and more spellings applied to every reachable state.
C12_CompleteOnlyBySave ==
    /\ [][\A u \in Users : BecomesComplete(u) =>
              /\ last'.called
              /\ last'.user = u
              /\ last'.step = "ASK_CONFIRMATION"
              /\ Normalized(last'.message) \in YES
              /\ last'.verdict = "valid"
              /\ last'.saved = << user_states'[u].data >>
              /\ persist_calls'[u] = 1]_vars
    /\ [](\A u \in Users, m \in YesForms \cup NoForms \cup RestartForms \cup InvalidProbes :
              \A r \in {Probe(u, m)} :
                  (u \in DOMAIN r.user_states
                     /\ r.user_states[u].step = "COMPLETE"
                     /\ StateOf(user_states, u).step # "COMPLETE") =>
                        /\ StateOf(user_states, u).step = "ASK_CONFIRMATION"
                        /\ Normalized(m) \in YES
                        /\ r.saved = << r.user_states[u].data >>)

\* C12 witness: the yes at ASK_CONFIRMATION that made the step COMPLETE, the
\* data having been passed to save_order_data
C12_Witness ==
    /\ last.called
    /\ last.step = "ASK_CONFIRMATION"
    /\ last.message = M_yes
    /\ Cur.step = "COMPLETE"
    /\ last.saved = << Cur.data >>
    /\ PersistCallsOf(last.user) = 1

\* the steps whose answer is a yes or a no (line 144)
YES_NO_STEPS == {"ASK_CUSTOM_PICTURE", "ASK_INDOORS", "ASK_AC", "ASK_CONFIRMATION"}

\* the steps of FLOW_MAP that have a branch table
BranchingSteps == {s \in DOMAIN FLOW_MAP : DOMAIN FLOW_MAP[s].next_if # {}}

\* the step a user is left at when the flow names the target t: SUMMARY is
\* the final save, which leaves COMPLETE
StepAfter(t) == IF t = "SUMMARY" THEN "COMPLETE" ELSE t

\* the key 'yes' or 'no' a message stands for
KeyOf(m) == IF Normalized(m) \in YES THEN "yes" ELSE "no"

\* where the flow table sends an accepted yes/no answer m of step s
BranchTarget(s, m) ==
    IF s \in BranchingSteps THEN FLOW_MAP[s].next_if[KeyOf(m)] ELSE FLOW_MAP[s].next

\* C13: at each of the four yes/no steps every spelling of y, n, yes, no
\* (any case, surrounding whitespace) is accepted and resolved to the key
\* 'yes' or 'no'; at the two steps that have a branch table the entry of
\* that key is the transition taken (at the two others, which have a single
\* next step, that step is taken); and no message that a branching step
\* accepts is anything but a yes or a no, so none falls through to the
\* default next step.
C13_BranchResolved ==
    /\ BranchingSteps = {"ASK_CUSTOM_PICTURE", "ASK_CONFIRMATION"}
    /\ (last.called /\ last.step \in YES_NO_STEPS /\ last.verdict = "valid") =>
          /\ Normalized(last.message) \in YES \cup NO
          /\ BranchKey(last.message) = KeyOf(last.message)
          /\ Cur.step = StepAfter(BranchTarget(last.step, last.message))
          /\ last.reply.kind \notin {"lost_my_place", "none"}
    /\ \A u \in DOMAIN user_states :
          user_states[u].step \in YES_NO_STEPS =>
              /\ \A m \in YesForms \cup NoForms \cup YES \cup NO : \A r \in {Probe(u, m)} :
                    /\ r.verdict = "valid"
                    /\ BranchKey(m) = KeyOf(m)
                    /\ r.user_states[u].step = StepAfter(BranchTarget(user_states[u].step, m))
                    /\ r.reply.kind \notin {"lost_my_place", "none"}
              /\ \A m \in Messages \cup InvalidProbes : \A r \in {Probe(u, m)} :
                    (r.verdict = "valid") => Normalized(m) \in YES \cup NO

\* C13 witness: ' No' at ASK_CUSTOM_PICTURE took the entry 'no' of the branch
\* table
C13_Witness ==
    /\ last.called
    /\ last.step = "ASK_CUSTOM_PICTURE"
    /\ last.message = M_No_padded
    /\ Cur.step = FLOW_MAP["ASK_CUSTOM_PICTURE"].next_if["no"]
    /\ Cur.data["has_picture"] = M_No_padded

\* the sizes that the validation of ASK_SIZE accepts for L layers
AcceptedSizes(L) == {SizesFor(L)[i] : i \in DOMAIN SizesFor(L)}

\* C14, as claimed: the reply to a valid layers answer L is the question of
\* ASK_SIZE and the sizes it offers are exactly the sizes that the validation
\* of ASK_SIZE accepts for L.
C14_SizePromptFromLayers ==
    (last.called /\ last.step = "ASK_LAYERS" /\ last.verdict = "valid") =>
        /\ last.reply.kind = "question"
        /\ last.reply.step = "ASK_SIZE"
        /\ QuestionSizes(last.reply.step) = AcceptedSizes(StoredLayers(Cur.data).val)

\* C15: the first message of a user that has no entry in user_states, unless
\* it is the restart keyword, is neither validated nor stored and saves
\* nothing: it creates the entry of the user with the step ASK_DATE, the
\* first step that collects data, and empty data, and it is answered with
\* the question of ASK_DATE.  Checked on the calls made and for every message
\* applied to every state in which a user has no entry.
C15_FirstMessageOpens ==
    /\ DataKey("START") = None
    /\ DataKey("ASK_DATE") # None
    /\ (last.called /\ ~last.known /\ Normalized(last.message) # RESTART) =>
          /\ last.step = "START"
          /\ last.verdict = "not_validated"
          /\ user_states[last.user] = [step |-> "ASK_DATE", data |-> EmptyData]
          /\ WrittenOf(last.user) = EmptyData
          /\ last.saved = <<>>
          /\ last.raised = None
          /\ last.reply = Question("ASK_DATE")
    /\ \A u \in Users \ DOMAIN user_states :
          \A m \in Messages \cup InvalidProbes \cup YesForms \cup NoForms :
              \A r \in {Probe(u, m)} :
                  Normalized(m) # RESTART =>
                      /\ r.verdict = "not_validated"
                      /\ r.wrote = <<>>
                      /\ r.saved = <<>>
                      /\ r.raised = None
                      /\ DOMAIN r.user_states = DOMAIN user_states \cup {u}
                      /\ r.user_states[u] = [step |-> "ASK_DATE", data |-> EmptyData]
                      /\ r.reply = Question("ASK_DATE")

\* C15 witness: a new user whose first message is a flavor, which is not
\* stored
C15_Witness ==
    /\ last.called
    /\ ~last.known
    /\ last.message = M_lemon
    /\ user_states[last.user] = [step |-> "ASK_DATE", data |-> EmptyData]
    /\ last.reply = Question("ASK_DATE")

\* answers whose raw form differs from their trimmed, lowercased form
RawProbes ==
    {<<"L", "e", "m", "o", "n", " ">>, <<" ", "2", " ">>, <<"R", "e", "d", " ", "C", "a", "k", "e">>}

\* the steps of FLOW_MAP that collect an answer
DataSteps == {s \in DOMAIN FLOW_MAP : DataKey(s) # None}

\* C16: a valid answer at a step that collects data is stored under the data
\* key of the step exactly as it was received, not trimmed and not
\* lowercased, and the user is moved to the next step of the flow table and
\* answered with the question of that step (preceded by the summary when
\* that step is ASK_CONFIRMATION); a valid date D at ASK_DATE gives data =
\* {event_date: D}, step ASK_CUSTOM_PICTURE and its question.
C16_RawAnswerStored ==
    /\ (last.called /\ last.verdict = "valid" /\ last.step \in DataSteps) =>
          /\ DataKey(last.step) \in DOMAIN Cur.data
          /\ Cur.data[DataKey(last.step)] = last.message
          /\ Cur.step = BranchTarget(last.step, last.message)
          /\ last.reply.step = Cur.step
          /\ last.reply.kind =
                (IF Cur.step = "ASK_CONFIRMATION" THEN "review" ELSE "question")
          /\ last.saved = <<>>
    /\ (last.called /\ last.verdict = "valid" /\ last.step = "ASK_DATE") =>
          /\ Cur = [step |-> "ASK_CUSTOM_PICTURE",
                    data |-> SetItem(EmptyData, "event_date", last.message)]
          /\ last.reply = Question("ASK_CUSTOM_PICTURE")
    /\ \A u \in DOMAIN user_states :
          user_states[u].step \in DataSteps =>
              \A m \in RawProbes \cup YesForms \cup NoForms \cup SizeProbes :
                  \A r \in {Probe(u, m)} :
                      r.verdict = "valid" =>
                          /\ r.user_states[u].data =
                                SetItem(user_states[u].data, DataKey(user_states[u].step), m)
                          /\ r.user_states[u].step = BranchTarget(user_states[u].step, m)
                          /\ r.reply.step = r.user_states[u].step

\* C16 witness: the date 25/12/2026 accepted at ASK_DATE and stored, in a
\* state where ' Y' would be stored as ' Y'
C16_Witness ==
    /\ last.called
    /\ last.step = "ASK_DATE"
    /\ last.message = M_date
    /\ Cur.data["event_date"] = M_date
    /\ Cur.step = "ASK_CUSTOM_PICTURE"
    /\ last.reply = Question("ASK_CUSTOM_PICTURE")
    /\ Probe(last.user, <<" ", "Y">>).user_states[last.user].data["has_picture"] = <<" ", "Y">>

\* dates sent at ASK_DATE: the day the clock starts in, a later day, two
\* earlier days, and a day written with a blank
D_today == <<"2", "6", "/", "1", "2", "/", "2", "0", "2", "6">>
D_later == <<"1", "/", "1", "/", "2", "0", "2", "7">>
D_2020 == <<"0", "1", "/", "0", "1", "/", "2", "0", "2", "0">>
D_two_days_ago == <<"2", "4", "/", "1", "2", "/", "2", "0", "2", "6">>
D_blank_day == <<" ", "5", "/", "1", "/", "2", "0", "2", "7">>

DatesThatParse == {M_date, D_today, D_later, D_2020, D_two_days_ago, D_blank_day}

\* messages that are no date of the form day/month/year
NotADate ==
    {<<"2", "0", "2", "6", "-", "1", "2", "-", "2", "5">>,
     <<"3", "1", "/", "0", "2", "/", "2", "0", "2", "7">>,
     <<"2", "5", "/", "1", "2", "/", "2", "6">>,
     <<"2", "5", "/", "1", "2", "/", "2", "0", "2", "6", " ">>,
     <<"1", "/", "1", "3", "/", "2", "0", "2", "7">>}

DateFormatError == ValidationError(Feedback("date_format", 0, <<>>), "ASK_DATE")

DatePastError == ValidationError(Feedback("date_past", 0, <<>>), "ASK_DATE")

\* the outcome of a message at ASK_DATE is the acceptance of the date
DateAccepted(u, m, r) ==
    /\ r.verdict = "valid"
    /\ r.user_states[u].data = SetItem(EmptyData, "event_date", m)
    /\ r.user_states[u].step = "ASK_CUSTOM_PICTURE"

\* the outcome of a message at ASK_DATE is the given error and nothing else
DateRejected(r, error) ==
    /\ r.verdict = "invalid"
    /\ r.reply = error
    /\ r.user_states = user_states

\* C17: at ASK_DATE (where no event_date is stored) a message that parses as
\* day/month/year is rejected, with the error that says 'past', exactly when
\* midnight of its day is more than 24 hours before the clock, and accepted
\* otherwise: the day of the clock and a later day are accepted, 01/01/2020
\* and the day two days back are rejected, and the day before the clock's is
\* accepted at midnight and rejected at noon.  A message that does not parse
\* gets the format error.  Every rejection changes nothing.
C17_DateNotPast ==
    /\ \A u \in DOMAIN user_states :
          user_states[u].step = "ASK_DATE" =>
              /\ user_states[u].data = EmptyData
              /\ \A m \in DatesThatParse : \A r \in {Probe(u, m)} :
                    /\ strptime(m).ok
                    /\ IF Midnight(strptime(m).ordinal) + HOURS_24 < now
                       THEN DateRejected(r, DatePastError)
                       ELSE DateAccepted(u, m, r)
              /\ \A m \in {D_2020, D_two_days_ago} :
                    DateRejected(Probe(u, m), DatePastError)
              /\ DateAccepted(u, D_later, Probe(u, D_later))
              /\ (now \in {NowStart, NowStart + 1}) =>
                    DateAccepted(u, D_today, Probe(u, D_today))
              /\ (now = NowStart) => DateAccepted(u, M_date, Probe(u, M_date))
              /\ (now = NowStart + 1) => DateRejected(Probe(u, M_date), DatePastError)
              /\ \A m \in NotADate \cup InvalidProbes \cup (Messages \ {M_date}) :
                    \A r \in {Probe(u, m)} :
                        Normalized(m) # RESTART =>
                            /\ ~strptime(m).ok
                            /\ DateRejected(r, DateFormatError)
    /\ (last.called /\ last.step = "ASK_DATE" /\ last.verdict = "invalid") =>
          /\ last.unchanged
          /\ Cur = [step |-> "ASK_DATE", data |-> EmptyData]
          /\ last.reply \in {DateFormatError, DatePastError}
    /\ (last.called /\ last.step = "ASK_DATE" /\ last.verdict = "valid") =>
          /\ strptime(last.message).ok
          /\ Midnight(strptime(last.message).ordinal) + HOURS_24 >= NowStart

\* C17 witness: 25/12/2026 rejected as past at noon of 26/12/2026, the step
\* still ASK_DATE and no event_date stored
C17_Witness ==
    /\ last.called
    /\ last.step = "ASK_DATE"
    /\ last.message = M_date
    /\ last.reply = DatePastError
    /\ now = NowStart + 1
    /\ Cur = [step |-> "ASK_DATE", data |-> EmptyData]

\* spellings of flavors of the list
FlavorForms ==
    {<<"L", "e", "m", "o", "n", " ">>,
     <<" ", "R", "E", "D", " ", "V", "E", "L", "V", "E", "T">>,
     <<"C", "a", "r", "r", "o", "t", "\n">>}

\* messages that are no flavor of the list
NotAFlavor ==
    {<<"m", "a", "n", "g", "o">>,
     <<"l", "e", "m", "o", "n", " ", "c", "a", "k", "e">>,
     <<"r", "e", "d", " ", " ", "v", "e", "l", "v", "e", "t">>,
     <<"l", "e", "m", "o">>}

\* the error of the flavor step, which lists every flavor
FlavorError == ValidationError(Feedback("flavors", 0, VALID_FLAVORS), "ASK_FLAVOR")

FlavorSet == {VALID_FLAVORS[i] : i \in DOMAIN VALID_FLAVORS}

\* C18: at ASK_FLAVOR a message is accepted if and only if, trimmed and
\* lowercased, it is one of the fourteen flavors of the list; every other
\* message is answered with the error that lists all fourteen, and changes
\* nothing.
C18_FlavorFromList ==
    /\ Cardinality(FlavorSet) = Len(VALID_FLAVORS)
    /\ (last.called /\ last.step = "ASK_FLAVOR" /\ last.verdict = "valid") =>
          Normalized(last.message) \in FlavorSet
    /\ (last.called /\ last.step = "ASK_FLAVOR" /\ last.verdict = "invalid") =>
          /\ Normalized(last.message) \notin FlavorSet
          /\ last.reply = FlavorError
          /\ last.reply.feedback.options = VALID_FLAVORS
          /\ last.unchanged
    /\ \A u \in DOMAIN user_states :
          user_states[u].step = "ASK_FLAVOR" =>
              /\ \A m \in FlavorSet \cup FlavorForms :
                    Probe(u, m).verdict = "valid"
              /\ \A m \in NotAFlavor \cup InvalidProbes \cup YesForms :
                    \A r \in {Probe(u, m)} :
                        /\ r.verdict = "invalid"
                        /\ r.reply = FlavorError
                        /\ r.user_states = user_states
              /\ \A m \in Messages \cup RawProbes :
                    \A r \in {Probe(u, m)} :
                        Normalized(m) # RESTART =>
                            IF Normalized(m) \in FlavorSet
                            THEN r.verdict = "valid"
                            ELSE /\ r.verdict = "invalid"
                                 /\ r.reply = FlavorError
                                 /\ r.user_states = user_states

\* C18 witness: '9' turned away at ASK_FLAVOR with the list of the fourteen
\* flavors, in a state where 'Lemon ' is accepted
C18_Witness ==
    /\ last.called
    /\ last.step = "ASK_FLAVOR"
    /\ last.message = M_9
    /\ last.reply = FlavorError
    /\ Len(last.reply.feedback.options) = 14
    /\ Probe(last.user, <<"L", "e", "m", "o", "n", " ">>).verdict = "valid"

\* messages that int() parses, with the number each stands for
N_0 == [message |-> <<"0">>, number |-> 0]
N_1 == [message |-> <<"1">>, number |-> 1]
N_2 == [message |-> <<" ", "2", " ">>, number |-> 2]
N_3 == [message |-> <<"0", "3">>, number |-> 3]
N_4 == [message |-> <<"+", "4">>, number |-> 4]
N_5 == [message |-> <<"5">>, number |-> 5]
N_6 == [message |-> <<"6">>, number |-> 6]
N_minus_1 == [message |-> <<"-", "1">>, number |-> 0 - 1]
N_10 == [message |-> <<"1", "_", "0">>, number |-> 10]

Numbers == {N_0, N_1, N_2, N_3, N_4, N_5, N_6, N_minus_1, N_10}

\* messages that are no integer
NotAnInteger ==
    {<<"t", "w", "o">>, <<"2", ".", "0">>, <<>>, <<"1", " ", "2">>, <<"+">>, <<"2", "_">>}

\* the layer counts and the tier counts that are allowed
LAYERS_ALLOWED == {1, 2, 3}
TIERS_ALLOWED == 1..5

\* C19: at ASK_LAYERS a message is accepted if and only if int() parses it to
\* 1, 2 or 3, and at ASK_TIERS if and only if int() parses it to a number
\* from 1 to 5, so that 0 and 6 are rejected at both; a message that is no
\* integer is rejected at both steps; a rejection changes nothing.
C19_NumbersInRange ==
    /\ {VALID_LAYERS[i] : i \in DOMAIN VALID_LAYERS} = LAYERS_ALLOWED
    /\ \A n \in Numbers : int(n.message) = [ok |-> TRUE, val |-> n.number]
    /\ \A m \in NotAnInteger : ~int(m).ok
    /\ \A u \in DOMAIN user_states :
          /\ user_states[u].step = "ASK_LAYERS" =>
                /\ \A n \in Numbers : \A r \in {Probe(u, n.message)} :
                      IF n.number \in LAYERS_ALLOWED
                      THEN r.verdict = "valid"
                      ELSE r.verdict = "invalid" /\ r.user_states = user_states
                /\ \A m \in NotAnInteger \cup (InvalidProbes \ {<<"9", "9">>}) :
                      \A r \in {Probe(u, m)} :
                          r.verdict = "invalid" /\ r.user_states = user_states
          /\ user_states[u].step = "ASK_TIERS" =>
                /\ \A n \in Numbers : \A r \in {Probe(u, n.message)} :
                      IF n.number \in TIERS_ALLOWED
                      THEN r.verdict = "valid"
                      ELSE r.verdict = "invalid" /\ r.user_states = user_states
                /\ \A m \in NotAnInteger \cup (InvalidProbes \ {<<"9", "9">>}) :
                      \A r \in {Probe(u, m)} :
                          r.verdict = "invalid" /\ r.user_states = user_states
    /\ (last.called /\ last.step = "ASK_LAYERS" /\ Normalized(last.message) # RESTART) =>
          (last.verdict = "valid" <=>
              (int(last.message).ok /\ int(last.message).val \in LAYERS_ALLOWED))
    /\ (last.called /\ last.step = "ASK_TIERS" /\ Normalized(last.message) # RESTART) =>
          (last.verdict = "valid" <=>
              (int(last.message).ok /\ int(last.message).val \in TIERS_ALLOWED))

\* C19 witness: '9' turned away at ASK_TIERS, in a state where 5 tiers are
\* accepted and 6 are not
C19_Witness ==
    /\ last.called
    /\ last.step = "ASK_TIERS"
    /\ last.message = M_9
    /\ last.verdict = "invalid"
    /\ Cur.step = "ASK_TIERS"
    /\ Probe(last.user, N_5.message).verdict = "valid"
    /\ Probe(last.user, N_6.message).verdict = "invalid"

\* the data restricted to the keys of S
Restrict(data, S) == [k \in DOMAIN data \cap S |-> data[k]]

\* the place of a display name in DISPLAY_KEY_MAP
PlaceOf(name) == CHOOSE i \in DOMAIN DISPLAY_KEY_MAP : DISPLAY_KEY_MAP[i][2] = name

\* the fields of DISPLAY_KEY_MAP that data holds
Shown(data) == {i \in DOMAIN DISPLAY_KEY_MAP : DISPLAY_KEY_MAP[i][1] \in DOMAIN data}

\* lines is the summary of data: one labeled line for each field of the
\* mapping that data holds, with its value, in the order of the mapping, and
\* no other line
IsSummaryOf(lines, data) ==
    /\ Len(lines) = Cardinality(Shown(data))
    /\ \A j \in DOMAIN lines :
          \E i \in Shown(data) :
              /\ lines[j].name = DISPLAY_KEY_MAP[i][2]
              /\ lines[j].value = data[DISPLAY_KEY_MAP[i][1]]
    /\ \A j, k \in DOMAIN lines :
          j < k => PlaceOf(lines[j].name) < PlaceOf(lines[k].name)

\* an order as it is held when the summary is made, and entries that the
\* mapping does not name
SampleOrder ==
    [k \in CollectedFields \cup {"user_id", "image_url"} |->
        IF k = "num_layers" THEN M_3_padded
        ELSE IF k = "cake_size" THEN M_8_padded
        ELSE IF k = "event_date" THEN M_date
        ELSE IF k = "cake_flavor" THEN M_lemon
        ELSE IF k \in {"cake_color", "cake_theme"} THEN M_reset
        ELSE IF k = "num_tiers" THEN M_2
        ELSE M_yes]

\* C20: the reply of the call that enters ASK_CONFIRMATION is the summary
\* followed by the question of ASK_CONFIRMATION; the summary has one labeled
\* line for each field of DISPLAY_KEY_MAP that the data holds, in the order
\* of the mapping, and no line for a field the data does not hold (checked
\* for the data of the call, for the data with any one field removed, and,
\* once, for every part of a sample order); the step and the data after the
\* call are what the answers made them, so rendering changed neither.
C20_SummaryAtConfirmation ==
    /\ (last.called /\ Cur.step = "ASK_CONFIRMATION" /\ last.step # "ASK_CONFIRMATION") =>
          /\ last.step = "ASK_AC"
          /\ last.reply.kind = "review"
          /\ last.reply.step = "ASK_CONFIRMATION"
          /\ IsSummaryOf(last.reply.summary, Cur.data)
          /\ Len(last.reply.summary) = Len(DISPLAY_KEY_MAP)
          /\ DOMAIN Cur.data = CollectedFields
          /\ \A k \in DOMAIN Cur.data : Cur.data[k] = WrittenOf(last.user)[k].message
          /\ \A k \in DOMAIN Cur.data :
                IsSummaryOf(_generate_summary_response(Restrict(Cur.data, DOMAIN Cur.data \ {k})),
                            Restrict(Cur.data, DOMAIN Cur.data \ {k}))
    /\ (last.called /\ last.reply.kind = "review") =>
          (Cur.step = "ASK_CONFIRMATION" /\ last.step = "ASK_AC")
    /\ (~last.called) =>
          \A S \in SUBSET DOMAIN SampleOrder :
              IsSummaryOf(_generate_summary_response(Restrict(SampleOrder, S)),
                          Restrict(SampleOrder, S))

\* C20 witness: the yes at ASK_AC answered with the summary of ten lines, the
\* first the event date and the last the picture, and the confirmation
\* question
C20_Witness ==
    /\ last.called
    /\ last.step = "ASK_AC"
    /\ last.message = M_yes
    /\ Cur.step = "ASK_CONFIRMATION"
    /\ last.reply.kind = "review"
    /\ Len(last.reply.summary) = 10
    /\ last.reply.summary[1] = [name |-> "Event Date", value |-> M_date]
    /\ last.reply.summary[10].name = "Picture Sent?"
    /\ last.reply.summary[4] = [name |-> "Cake Size", value |-> M_8_padded]

USER_2 == <<"2">>

TwoUsers == {USER_1, USER_2}

\* the messages of the first user, enough for a whole order, a declined one
\* and a restart
MessagesOfFirst == {M_restart, M_yes, M_No_padded, M_date, M_lemon, M_2, M_8_padded, M_9}

\* the messages of the second user, enough to reach ASK_LAYERS
MessagesOfSecond == {M_Restart_padded, M_No_padded, M_date, M_lemon}

\* the messages of the two users are handled one after the other, in any
\* order
NextUsers ==
    \/ \E incoming_message \in MessagesOfFirst : get_response(USER_1, incoming_message)
    \/ \E incoming_message \in MessagesOfSecond : get_response(USER_2, incoming_message)

SpecUsers == Init /\ [][NextUsers]_vars

\* the states with the entry of user u alone
Alone(states, u) == [v \in DOMAIN states \cap {u} |-> states[v]]

\* what handling message m of user u does to the entry of another user v
Untouched(states, after, v) ==
    /\ (v \in DOMAIN after) = (v \in DOMAIN states)
    /\ v \in DOMAIN states => after[v] = states[v]

\* C22: handling a message of one user (valid, invalid, restart, yes or no at
\* the confirmation) leaves the entry of every other user as it was, and
\* what it does to the entry of its own user, and what it replies and saves,
\* is what it would do were that user the only one; so in any interleaving
\* of whole calls each user ends in the state its own messages alone give.
\* Checked on every call of two users and for every message applied to every
\* reachable state.
C22_UsersIndependent ==
    /\ [][\A v \in TwoUsers :
              v # last'.user => Untouched(user_states, user_states', v)]_vars
    /\ [](\A u \in TwoUsers :
              \A m \in MessagesOfFirst \cup MessagesOfSecond \cup YesForms \cup InvalidProbes :
                  \A r \in {Probe(u, m)} :
                      \A a \in {_get_next_step(Alone(user_states, u), now, u, m)} :
                          /\ \A v \in TwoUsers \ {u} :
                                Untouched(user_states, r.user_states, v)
                          /\ r.user_states[u] = a.user_states[u]
                          /\ r.reply = a.reply
                          /\ r.saved = a.saved
                          /\ r.raised = a.raised)

\* C22 witness: the first user's order was saved while the second user is at
\* ASK_LAYERS with three answers stored
C22_Witness ==
    /\ last.called
    /\ last.user = USER_1
    /\ last.saved # <<>>
    /\ USER_2 \in DOMAIN user_states
    /\ user_states[USER_2].step = "ASK_LAYERS"
    /\ DOMAIN user_states[USER_2].data = {"event_date", "has_picture", "cake_flavor"}
    /\ user_states[USER_1].step = "COMPLETE"
    /\ user_states[USER_1].data["user_id"] = USER_1

\* the step of the menu variant's table at which a picture is sent
ASK_IMAGE_UPLOAD == CAKE_CONFIG_FLOW_MAP["ASK_CUSTOM_PICTURE"].next_if["yes"]

\* C23, as claimed: an accepted 'yes' at ASK_CUSTOM_PICTURE leaves the user
\* at the image-upload step, an accepted 'no' leaves the user at ASK_FLAVOR,
\* and data holds image_url only if the picture question was answered yes.
C23_YesLeadsToImageUpload ==
    /\ ASK_IMAGE_UPLOAD = "ASK_IMAGE_UPLOAD"
    /\ DataKey("ASK_CUSTOM_PICTURE") = "has_picture"
    /\ (last.called /\ last.step = "ASK_CUSTOM_PICTURE" /\ last.verdict = "valid") =>
          /\ Normalized(last.message) \in YES => Cur.step = ASK_IMAGE_UPLOAD
          /\ Normalized(last.message) \in NO => Cur.step = "ASK_FLAVOR"
    /\ \A u \in DOMAIN user_states :
          "image_url" \in DOMAIN user_states[u].data =>
              /\ "has_picture" \in DOMAIN user_states[u].data
              /\ Normalized(user_states[u].data["has_picture"]) \in YES

(***************************************************************************)
(* The webhook: handlers.whatsapp_handler.process_whatsapp_message         *)
(***************************************************************************)
\* the parameters of conversation_handler.get_response (line 306)
GET_RESPONSE_PARAMETERS == {"user_id", "incoming_message"}

\* the keywords process_whatsapp_message passes to get_response (lines 138-142)
GET_RESPONSE_KEYWORDS == {"user_id", "incoming_message", "media_context"}

\* message_data['type']
MessageTypes == {"text", "image", "audio"}

\* what get_media_url_and_mime returns: None, a dict without a url, a dict
\* with a url
MediaResults == {"none", "no_url", "resolved"}

\* the text bodies and captions of the messages of the webhook
Bodies == {<<>>, M_No_padded}

\* "I received your message but couldn't get the image link from WhatsApp.
\* Please try sending the image again."
RetryImage == Reply("retry_image", None, Valid.feedback, <<>>)

\* "I currently only process text messages and single image files ..."
UnsupportedType == Reply("unsupported_type", None, Valid.feedback, <<>>)

\* the record of a process_whatsapp_message call
WebhookCall(sender_phone, message_type, incoming_text, media_context, sent, engine) ==
    [called |-> TRUE, user |-> sender_phone, type |-> message_type,
     text |-> incoming_text, media |-> media_context, sent |-> sent,
     engine |-> engine]

\* lines 136-146: the call of get_response and the reply that is sent.  A
\* keyword that get_response does not accept raises TypeError before the
\* body of get_response runs, and nothing is sent.
Route(sender_phone, message_type, incoming_text, media_context) ==
    IF GET_RESPONSE_KEYWORDS \subseteq GET_RESPONSE_PARAMETERS
    THEN /\ Respond(sender_phone, incoming_text, StateOf(user_states, sender_phone).step)
         /\ UNCHANGED <<now, inflight, overlaps, streak>>
         /\ webhook' = WebhookCall(sender_phone, message_type, incoming_text,
                                   media_context, last'.reply, "returned")
    ELSE /\ webhook' = WebhookCall(sender_phone, message_type, incoming_text,
                                   media_context, NoReply, "TypeError")
         /\ UNCHANGED <<user_states, now, last, written, persist_calls,
                        inflight, overlaps, streak>>

\* a variant of process_whatsapp_message without the check of lines 121-125:
\* an image whose link could not be fetched is routed like any other
process_whatsapp_message_unchecked(sender_phone, message_type, body, media) ==
    IF message_type \in {"text", "image"}
    THEN Route(sender_phone, message_type, body, media)
    ELSE /\ webhook' = WebhookCall(sender_phone, message_type, <<>>,
                                   "not_fetched", UnsupportedType, "not_called")
         /\ UNCHANGED <<user_states, now, last, written, persist_calls,
                        inflight, overlaps, streak>>

\* process_whatsapp_message(value) for a message of sender_phone of the given
\* type; body is its text or its caption, media is what the fetch of the
\* image link returns
process_whatsapp_message(sender_phone, message_type, body, media) ==
    IF message_type = "text"
    THEN Route(sender_phone, message_type, body, "not_fetched")
    ELSE IF message_type = "image"
    THEN (IF media # "resolved"
          THEN /\ webhook' = WebhookCall(sender_phone, message_type, strip(body),
                                         media, RetryImage, "not_called")
               /\ UNCHANGED <<user_states, now, last, written, persist_calls,
                              inflight, overlaps, streak>>
          ELSE Route(sender_phone, message_type, strip(body), media))
    ELSE /\ webhook' = WebhookCall(sender_phone, message_type, <<>>,
                                   "not_fetched", UnsupportedType, "not_called")
         /\ UNCHANGED <<user_states, now, last, written, persist_calls,
                        inflight, overlaps, streak>>

\* the messages sent to the engine directly in the specification of the webhook
MessagesOfWebhook == {M_restart, M_yes, M_date, M_lemon, M_2, M_8_padded}

NextWebhook ==
    \/ \E incoming_message \in MessagesOfWebhook : get_response(USER_1, incoming_message)
    \/ \E message_type \in MessageTypes, body \in Bodies, media \in MediaResults :
          process_whatsapp_message(USER_1, message_type, body, media)

\* the engine is called directly, and messages arrive at the webhook
SpecWebhook == Init /\ [][NextWebhook]_vars

\* C24: when the link of an incoming image cannot be fetched (the fetch
\* returns nothing or a result without a url), get_response is not called:
\* the states of all users, the record of the last engine call and the saved
\* data are as before the message, the retry reply is sent to the user, and
\* every message the user sends next is handled exactly as it would have
\* been handled before the image.
C24_MediaFailureKeepsState ==
    /\ [][(/\ webhook'.called
            /\ webhook'.type = "image"
            /\ webhook'.media # "resolved") =>
                /\ user_states' = user_states
                /\ <<last, written, persist_calls>>' = <<last, written, persist_calls>>
                /\ webhook'.engine = "not_called"
                /\ webhook'.sent = RetryImage
                /\ \A m \in MessagesOfWebhook :
                      _get_next_step(user_states', now', webhook'.user, m)
                          = _get_next_step(user_states, now, webhook'.user, m)]_vars
    /\ [](webhook.called /\ webhook.type = "image" /\ webhook.media # "resolved" =>
              /\ webhook.sent = RetryImage
              /\ webhook.engine = "not_called")

\* C24 witness: a user at ASK_FLAVOR sent an image with the caption ' No'
\* whose link could not be fetched; the retry reply was sent and the user is
\* still at ASK_FLAVOR with the date and the picture answer
C24_Witness ==
    /\ webhook.called
    /\ webhook.type = "image"
    /\ webhook.media = "no_url"
    /\ webhook.text = strip(M_No_padded)
    /\ webhook.sent = RetryImage
    /\ webhook.user \in DOMAIN user_states
    /\ user_states[webhook.user].step = "ASK_FLAVOR"
    /\ DOMAIN user_states[webhook.user].data = {"event_date", "has_picture"}

(***************************************************************************)
(* The engine started in any state, also in one that no sequence of        *)
(* whole messages leads to                                                 *)
(***************************************************************************)
M_two == <<"t", "w", "o">>

\* the steps a state can name
AnySteps == DOMAIN FLOW_MAP \cup {"COMPLETE"}

\* the data a state can hold: any of three fields, the number of layers
\* valid, out of range or not a number
AnyData ==
    {d \in UNION {[K -> {M_2, M_3_padded, M_9, M_two, M_lemon}] :
                      K \in SUBSET {"cake_flavor", "num_layers", "cake_size"}} :
        /\ "cake_flavor" \in DOMAIN d => d["cake_flavor"] = M_lemon
        /\ "cake_size" \in DOMAIN d => d["cake_size"] = M_lemon
        /\ "num_layers" \in DOMAIN d => d["num_layers"] # M_lemon}

InitAny ==
    /\ \E s \in AnySteps, d \in AnyData :
          user_states = SetState(<<>>, USER_1, [step |-> s, data |-> d])
    /\ now = NowStart
    /\ last = NoCall
    /\ written = [u \in {} |-> EmptyData]
    /\ persist_calls = [u \in {} |-> 0]
    /\ webhook = NoWebhook
    /\ inflight = NoHandlers
    /\ overlaps = 0
    /\ streak = 0

MessagesOfAny == {M_restart, M_reset, M_2, M_8_padded, M_lemon, M_two}

NextAny == \E incoming_message \in MessagesOfAny : get_response(USER_1, incoming_message)

SpecAny == InitAny /\ [][NextAny]_vars

\* what _validate_input can read of the states for current_step: the number
\* of layers of the user at ASK_SIZE, nothing at any other step
ReadByValidation(states, user_id, current_step) ==
    SetState(<<>>, user_id,
             [step |-> "START",
              data |-> IF current_step = "ASK_SIZE"
                       THEN Restrict(StateOf(states, user_id).data, {"num_layers"})
                       ELSE EmptyData])

\* C25: validation has no effect on user_states and reads only num_layers,
\* at ASK_SIZE.  (1) A call whose message is rejected leaves user_states as
\* it was.  (2) A call whose message is accepted changes the data of the
\* user only by what the store and the transition do: every other field
\* keeps its value, and the only fields that can appear are the data key of
\* the step and user_id (unless a declined confirmation empties the data).
\* (3) For every step and message the verdict and the feedback computed in
\* the current state are those computed in the state that holds nothing but
\* the num_layers of the user.
C25_ValidationHasNoEffect ==
    /\ [][last'.called =>
            \A old \in {StateOf(user_states, last'.user)},
               new \in {StateOf(user_states', last'.user)} :
                /\ last'.verdict = "invalid" => user_states' = user_states
                /\ last'.verdict = "valid" =>
                      \/ new = FreshState("START")
                      \/ /\ DOMAIN new.data \subseteq
                               DOMAIN old.data \cup {DataKey(old.step), "user_id"}
                         /\ \A k \in DOMAIN old.data \ {DataKey(old.step)} :
                               k \in DOMAIN new.data /\ new.data[k] = old.data[k]]_vars
    /\ [](\A u \in DOMAIN user_states, s \in AnySteps,
             m \in MessagesOfAny \cup SizeProbes :
               _validate_input(user_states, now, u, s, m)
                   = _validate_input(ReadByValidation(user_states, u, s), now, u, s, m))

\* C25 witness: a size was rejected for a user with three layers, a flavor
\* and no size, and the state is as it was
C25_Witness ==
    /\ last.called
    /\ last.step = "ASK_SIZE"
    /\ last.verdict = "invalid"
    /\ last.reply.feedback.tag = "size_unavailable"
    /\ last.unchanged
    /\ Cur.step = "ASK_SIZE"
    /\ DOMAIN Cur.data = {"cake_flavor", "num_layers"}
    /\ Cur.data["num_layers"] = M_3_padded

\* the data of a state without a number of layers that int() parses
NoParsableLayers(data) ==
    "num_layers" \notin DOMAIN data \/ ~int(data["num_layers"]).ok

\* "Error: Please tell me the number of layers before choosing a size."
LayersFirst == ValidationError(Feedback("layers_first", 0, <<>>), "ASK_SIZE")

\* C26: at ASK_SIZE with no num_layers in data, or one that is not a number,
\* every message but the restart keyword (the word 'reset' included) is
\* rejected: the reply is the error that asks for the number of layers
\* followed by the question of ASK_SIZE, nothing is raised, nothing is saved
\* and the state is unchanged, so no size is stored; the restart keyword sets
\* the state to START with empty data.  Checked on the calls made and for
\* further messages applied to every such state.
C26_SizeWithoutLayers ==
    /\ (last.called /\ last.step = "ASK_SIZE" /\ Normalized(last.message) # RESTART
           /\ NoParsableLayers(Cur.data)) =>
          /\ last.verdict = "invalid"
          /\ last.reply = LayersFirst
          /\ last.unchanged
          /\ last.raised = None
          /\ last.saved = <<>>
          /\ Cur.step = "ASK_SIZE"
    /\ \A u \in DOMAIN user_states :
          (user_states[u].step = "ASK_SIZE" /\ NoParsableLayers(user_states[u].data)) =>
              /\ \A m \in MessagesOfAny \cup SizeProbes \cup InvalidProbes :
                    \A r \in {Probe(u, m)} :
                        IF Normalized(m) = RESTART
                        THEN /\ r.user_states[u] = FreshState("START")
                             /\ r.raised = None
                        ELSE /\ r.verdict = "invalid"
                             /\ r.reply = LayersFirst
                             /\ r.user_states = user_states
                             /\ r.raised = None
                             /\ r.saved = <<>>
              /\ \A m \in RestartForms : Probe(u, m).user_states[u] = FreshState("START")

\* C26 witness: ' 8', a size, was sent at ASK_SIZE by a user whose data holds
\* the flavor and 'two' as number of layers; it was rejected with the error
\* that asks for the layers, and the user is still at ASK_SIZE without a size
C26_Witness ==
    /\ last.called
    /\ last.step = "ASK_SIZE"
    /\ last.message = M_8_padded
    /\ last.reply = LayersFirst
    /\ Cur.step = "ASK_SIZE"
    /\ "cake_size" \notin DOMAIN Cur.data
    /\ "num_layers" \in DOMAIN Cur.data
    /\ Cur.data["num_layers"] = M_two

\* the steps of FLOW_MAP from step s on, in the order in which valid answers
\* (yes at a branch) visit them
RECURSIVE FlowFrom(_)
FlowFrom(s) ==
    IF s \notin DOMAIN FLOW_MAP THEN <<>>
    ELSE <<s>> \o FlowFrom(IF DOMAIN FLOW_MAP[s].next_if # {}
                           THEN FLOW_MAP[s].next_if["yes"]
                           ELSE FLOW_MAP[s].next)

FlowOrder == FlowFrom("START")

\* the place of a step of FLOW_MAP in the flow order
PlaceOfStep(s) == CHOOSE i \in DOMAIN FlowOrder : FlowOrder[i] = s

\* the data keys of the steps that precede step s in the flow order
KeysBefore(s) ==
    {DataKey(FlowOrder[i]) : i \in 1..(PlaceOfStep(s) - 1)} \ {None}

\* the data of a state holds the keys of the steps before its step, no others
KeysFollowStep(state) ==
    state.step \in DOMAIN FLOW_MAP => DOMAIN state.data = KeysBefore(state.step)

\* C28: when every message is handled as a whole, at every step of the flow
\* table the data of a user holds exactly the data keys of the steps that
\* precede it in the flow order: nothing at START and at ASK_DATE, the ten
\* fields at ASK_CONFIRMATION.
C28_KeysFollowStep ==
    /\ FlowOrder = <<"START", "ASK_DATE", "ASK_CUSTOM_PICTURE", "ASK_FLAVOR",
                     "ASK_LAYERS", "ASK_SIZE", "ASK_TIERS", "ASK_COLOR", "ASK_THEME",
                     "ASK_INDOORS", "ASK_AC", "ASK_CONFIRMATION">>
    /\ KeysBefore("ASK_CONFIRMATION") =
          {"event_date", "has_picture", "cake_flavor", "num_layers", "cake_size",
           "num_tiers", "cake_color", "cake_theme", "venue_indoors", "venue_ac"}
    /\ KeysBefore("ASK_SIZE") = {"event_date", "has_picture", "cake_flavor", "num_layers"}
    /\ \A u \in DOMAIN user_states : KeysFollowStep(user_states[u])

\* C28 witness: a user who answered ' No' to the picture question and then
\* gave a size is at ASK_TIERS with the five fields of the steps before it
C28_Witness ==
    /\ last.called
    /\ last.step = "ASK_SIZE"
    /\ Cur.step = "ASK_TIERS"
    /\ DOMAIN Cur.data = {"event_date", "has_picture", "cake_flavor", "num_layers",
                          "cake_size"}
    /\ Cur.data["has_picture"] = M_No_padded

(***************************************************************************)
(* Handlers of one user that overlap.  _get_next_step reads the step of    *)
(* the user (lines 242-243) and acts on it later (lines 246-303) without   *)
(* holding a lock; another handler can run in between.                     *)
(***************************************************************************)
\* how many handlers can be running at once
MaxInFlight == 2

\* how many times a handler is started while another is running
MaxOverlaps == 2

MessagesOfRace == {M_restart, M_yes, M_date, M_lemon, M_2, M_8_padded}

\* lines 242-243: a handler of a message of user_id reads the step
Begin(user_id, incoming_message) ==
    /\ Cardinality(DOMAIN inflight) < MaxInFlight
    /\ inflight # NoHandlers => overlaps < MaxOverlaps
    /\ \E h \in {CHOOSE i \in 1..MaxInFlight :
                    /\ i \notin DOMAIN inflight
                    /\ \A j \in 1..(i - 1) : j \in DOMAIN inflight} :
          inflight' = SetState(inflight, h,
                               [user |-> user_id,
                                message |-> incoming_message,
                                current_step |-> StateOf(user_states, user_id).step])
    /\ overlaps' = IF inflight # NoHandlers THEN overlaps + 1 ELSE overlaps
    /\ UNCHANGED <<user_states, now, last, written, persist_calls, webhook, streak>>

\* lines 246-303: handler h acts on the step it has read and returns
Finish(h) ==
    /\ h \in DOMAIN inflight
    /\ Respond(inflight[h].user, inflight[h].message, inflight[h].current_step)
    /\ inflight' = [g \in DOMAIN inflight \ {h} |-> inflight[g]]
    /\ UNCHANGED <<now, webhook, overlaps, streak>>

NextRace ==
    \/ \E incoming_message \in MessagesOfRace : Begin(USER_1, incoming_message)
    \/ \E h \in 1..MaxInFlight : Finish(h)

\* the handlers of one user start and return in any order
SpecRace == Init /\ [][NextRace]_vars

\* an order was passed to save_order_data more than once
SavedTwice(user_id) == PersistCallsOf(user_id) > 1

\* C27: handlers of one user that overlap reach states that whole messages
\* do not: an order saved more than once, or a step whose earlier fields are
\* missing from the data.  Such a state is reached only after a handler was
\* started while another was running; as long as no two handlers overlap,
\* every order is saved at most once and the data holds the fields of the
\* steps before the step of the user.
C27_AnomalyNeedsOverlap ==
    \A u \in DOMAIN user_states :
        (SavedTwice(u) \/ ~KeysFollowStep(user_states[u])) => overlaps > 0

\* C27 witness: a 'restart' ran between the read and the write of a flavor
\* answer, so the order went on without its date and picture answer; at the
\* confirmation two handlers of 'yes' both read ASK_CONFIRMATION and both
\* saved the order
C27_Witness ==
    /\ USER_1 \in DOMAIN user_states
    /\ SavedTwice(USER_1)
    /\ user_states[USER_1].step = "COMPLETE"
    /\ "cake_flavor" \in DOMAIN user_states[USER_1].data
    /\ "event_date" \notin DOMAIN user_states[USER_1].data
    /\ "has_picture" \notin DOMAIN user_states[USER_1].data
    /\ overlaps = 2
    /\ inflight = NoHandlers

\* the step that follows step s of FLOW_MAP in the flow order; the
\* completion marker follows the last one
Successor(s) ==
    IF PlaceOfStep(s) < Len(FlowOrder) THEN FlowOrder[PlaceOfStep(s) + 1] ELSE "COMPLETE"

\* C29: a call leaves the user (1) at the step it found, which happens only
\* when the answer was rejected, when the step is outside the flow table
\* (the call raises) or when 'restart' is sent at START; or (2) at the step
\* that follows in the flow order, only after an answer that was not
\* rejected, the completion marker following ASK_CONFIRMATION and no other
\* step; or (3) at START, only by 'restart' or by a 'no' at ASK_CONFIRMATION.
\* So no step is skipped, and an earlier step is reached again only through
\* START.
C29_StepMoves ==
    /\ Successor("START") = "ASK_DATE"
    /\ Successor("ASK_CONFIRMATION") = "COMPLETE"
    /\ \A s \in DOMAIN FLOW_MAP \ {"ASK_CONFIRMATION"} : Successor(s) \in DOMAIN FLOW_MAP
    /\ last.called =>
          \/ /\ Cur.step = last.step
             /\ \/ last.verdict = "invalid"
                \/ last.step \notin DOMAIN FLOW_MAP /\ last.raised # None
                \/ last.step = "START" /\ Normalized(last.message) = RESTART
          \/ /\ last.step \in DOMAIN FLOW_MAP
             /\ Cur.step = Successor(last.step)
             /\ last.verdict # "invalid"
             /\ Normalized(last.message) # RESTART
          \/ /\ Cur.step = "START"
             /\ \/ Normalized(last.message) = RESTART
                \/ last.step = "ASK_CONFIRMATION" /\ Normalized(last.message) \in NO
    /\ \A u \in DOMAIN user_states :
          \A m \in InvalidProbes \cup YES \cup NO : \A r \in {Probe(u, m)} :
              r.user_states[u].step \in
                  {user_states[u].step, "START"}
                      \cup (IF user_states[u].step \in DOMAIN FLOW_MAP
                            THEN {Successor(user_states[u].step)} ELSE {})

\* C29 witness: ' No' at ASK_CONFIRMATION took the user back to START
C29_Witness ==
    /\ last.called
    /\ last.step = "ASK_CONFIRMATION"
    /\ last.message = M_No_padded
    /\ last.verdict = "valid"
    /\ Cur = FreshState("START")

\* C30: save_order_data is called only by the call that handles a yes at
\* ASK_CONFIRMATION, once; between two points at which the data of a user is
\* emptied (restart, or no at the confirmation) it is called at most once,
\* and exactly once when the user is at COMPLETE.  A message at COMPLETE,
\* a repeated 'yes' in any spelling included, makes no call and leaves the
\* state as it is; only 'restart' leaves COMPLETE, with empty data.
C30_SavedOncePerOrder ==
    /\ (last.called /\ last.saved # <<>>) =>
          /\ last.step = "ASK_CONFIRMATION"
          /\ Normalized(last.message) \in YES
          /\ Len(last.saved) = 1
          /\ Cur.step = "COMPLETE"
    /\ (last.called /\ last.step = "COMPLETE") => last.saved = <<>>
    /\ \A u \in DOMAIN user_states :
          /\ PersistCallsOf(u) <= 1
          /\ user_states[u].step = "COMPLETE" =>
                /\ PersistCallsOf(u) = 1
                /\ \A m \in Messages \cup YesForms \cup YES : \A r \in {Probe(u, m)} :
                      /\ r.saved = <<>>
                      /\ Normalized(m) # RESTART => r.user_states = user_states
                      /\ Normalized(m) = RESTART => r.user_states[u] = FreshState("START")
          /\ user_states[u].step # "COMPLETE" => PersistCallsOf(u) = 0

\* C30 witness: 'yes' was sent again after the order was saved; nothing was
\* saved by that call and the user is still at COMPLETE with one save
C30_Witness ==
    /\ last.called
    /\ last.step = "COMPLETE"
    /\ last.message = M_yes
    /\ last.saved = <<>>
    /\ Cur.step = "COMPLETE"
    /\ PersistCallsOf(last.user) = 1

(***************************************************************************)
(* A user who keeps answering: no restart, no 'no' at the confirmation,    *)
(* and at every step a valid answer is sent at some time                   *)
(***************************************************************************)
MessagesOfLive == {M_yes, M_date, D_later, M_lemon, M_2, M_8_padded, M_9}

\* message m is an answer that the validation of the step of the user
\* accepts, a yes at ASK_CONFIRMATION
ValidFor(states, clock, user_id, m) ==
    \E s \in {StateOf(states, user_id).step} :
        /\ s \in DOMAIN FLOW_MAP
        /\ _validate_input(states, clock, user_id, s, m).ok
        /\ s = "ASK_CONFIRMATION" => Normalized(m) \in YES

\* get_response(user_id, incoming_message), counted
Answer(user_id, incoming_message) ==
    /\ Respond(user_id, incoming_message, StateOf(user_states, user_id).step)
    /\ streak' = IF streak = -1 \/ last'.verdict = "invalid" \/ last'.raised # None
                 THEN -1
                 ELSE streak + 1
    /\ webhook' = NoWebhook
    /\ UNCHANGED <<now, inflight, overlaps>>

\* the user sends an answer that is valid for the step
AnswerValid ==
    \E m \in MessagesOfLive : ValidFor(user_states, now, USER_1, m) /\ Answer(USER_1, m)

NextLive ==
    \/ \E incoming_message \in MessagesOfLive : Answer(USER_1, incoming_message)
    \/ Tick

\* the user may send anything of MessagesOfLive at any time, and does not
\* withhold a valid answer forever
SpecLive == Init /\ [][NextLive]_vars /\ WF_vars(AnswerValid)

\* the user is at COMPLETE and the order was saved once
CompletedOnce ==
    /\ USER_1 \in DOMAIN user_states
    /\ user_states[USER_1].step = "COMPLETE"
    /\ PersistCallsOf(USER_1) = 1

\* C31: a user who sends no 'restart' and no 'no' at the confirmation, and
\* who at every step sends at some time an answer valid for it, reaches
\* COMPLETE with one call of save_order_data and stays there, however many
\* rejected answers are sent in between.  As long as no answer was rejected
\* the number of messages handled is the place of the step in the flow
\* order: 0 before the first message, 1 at ASK_DATE, 11 at ASK_CONFIRMATION,
\* and 12 at COMPLETE, which is not reached with fewer messages.
C31_ValidAnswersComplete ==
    /\ <>[]CompletedOnce
    /\ [](/\ Len(FlowOrder) = 12
          /\ streak # -1 =>
                IF USER_1 \notin DOMAIN user_states THEN streak = 0
                ELSE \E s \in {user_states[USER_1].step} :
                        IF s \in DOMAIN FLOW_MAP THEN streak = PlaceOfStep(s) - 1
                        ELSE s = "COMPLETE" /\ streak = Len(FlowOrder)
          /\ CompletedOnce /\ streak # -1 => streak = 12)

\* C31 witness: the order was completed and saved once by twelve messages,
\* none of them rejected
C31_Witness ==
    /\ CompletedOnce
    /\ streak = 12
    /\ last.step = "ASK_CONFIRMATION"
    /\ last.message = M_yes

\* the steps whose question asks for the date of the event: the question of
\* START ends with the question of ASK_DATE
QuestionAsksDate(step) == step \in {"START", "ASK_DATE"}

\* the reply asks for the date of the event: the question of START or of
\* ASK_DATE, alone, after a validation error or after 'Order canceled.'
AsksForDate(reply) ==
    /\ reply.kind \in {"question", "validation_error", "canceled"}
    /\ QuestionAsksDate(reply.step)

\* C32, as claimed: whenever the last reply asked for the date of the event,
\* a valid date sent next is validated as the answer of ASK_DATE and stored
\* as event_date.
C32_DateAnswerRecorded ==
    (last.called /\ AsksForDate(last.reply)) =>
        \A d \in {M_date, D_later} : \A r \in {Probe(last.user, d)} :
            ValidateDate(d, now).ok =>
                /\ r.verdict = "valid"
                /\ "event_date" \in DOMAIN r.user_states[last.user].data
                /\ r.user_states[last.user].data["event_date"] = d
                /\ r.user_states[last.user].step = "ASK_CUSTOM_PICTURE"

====
